---- MODULE Spec2Model ----
(***************************************************************************)
(* Model of the real-time token-discovery core of the Axiom trade pulse    *)
(* clone:                                                                  *)
(*   - the client-side Pusher subscription singleton                       *)
(*       (src/hooks/use-pusher-updates.ts)            -> SpecSub           *)
(*   - the poller and the webhook route that publish to the broker         *)
(*       (src/scripts/mobula-poller.ts,                                    *)
(*        src/app/api/broadcast/route.ts)             -> SpecServer        *)
(*   - the live chart buffer hook                                          *)
(*       (src/hooks/use-live-chart-data.ts)           -> SpecChart         *)
(*   - the seed generator generateInitialData         -> SpecSeed          *)
(* Each part has its own variables, initial predicate and next-state       *)
(* relation; a specification leaves the other parts' variables unchanged.  *)
(***************************************************************************)
EXTENDS Integers, Sequences, FiniteSets, TLC

(***************************************************************************)
(* Bounds of the model (not program constants).                            *)
(***************************************************************************)
\* total number of hook mounts (acquire calls) explored
MaxMounts == 4
\* number of clock ticks that make up the 100 ms grace period
GraceTicks == 2

\* the components that call usePusherTokenUpdates()
Viewers == {"v1", "v2", "v3"}
\* number of 'token.created' events the channel receives
MaxEvents == 2

(***************************************************************************)
(* STATE.  The variables of the parts.                                     *)
(***************************************************************************)
VARIABLES
    pusherInstance,          \* NoInstance, or the serial number of the live Pusher object
    channelInstance,         \* NoInstance, or the serial number of the live 'pulse' channel
    subscriberCount,         \* the module-level refcount
    connectionHandlersBound, \* the module-level flag
    handlerRef,              \* per viewer: handlerRef.current (NoHandler = null)
    mounted,                 \* per viewer: the effect has run and its cleanup has not
    activeHandlers,          \* the handler closures whose isActive is still true
    channelHandlers,         \* handlers bound to 'token.created' on the live channel
    connBindCount,           \* times the connection-state handler set was bound on the live Pusher object
    subBindCount,            \* times the subscription-result handlers were bound on the live channel
    timers,                  \* pending grace timers, oldest first
    \* observations of the broker client (history)
    connects,                \* number of `new Pusher(...)` calls
    disconnects,             \* number of pusherInstance.disconnect() calls
    subscribes,              \* number of pusherInstance.subscribe('pulse') calls
    unsubscribes,            \* number of channelInstance.unsubscribe() calls
    acquires,                \* number of effect runs (mounts)
    releases,                \* number of cleanups (unmounts)
    zeroReleases,            \* number of cleanups that brought the refcount to zero
    teardownCounts,          \* the refcount values observed by the timer callbacks that tore down
    staleTeardowns,          \* teardowns performed by a timer whose release was followed by an acquire
    \* the broker client
    connState,               \* pusherInstance.connection.state ("none": no Pusher object)
    hasFailed,               \* a connection has entered 'failed' since the page was loaded
    attemptAfterFailed,      \* a connection attempt was started after that
    eventsSent,              \* number of 'token.created' events the channel has received
    lastEvent                \* the last of them: the handlers called, those that dispatched,
                             \* the number of releases before it, and the token it carried

subVars == << pusherInstance, channelInstance, subscriberCount, connectionHandlersBound,
              handlerRef, mounted, activeHandlers, channelHandlers, connBindCount,
              subBindCount, timers, connects, disconnects, subscribes, unsubscribes,
              acquires, releases, zeroReleases, teardownCounts, staleTeardowns,
              connState, hasFailed, attemptAfterFailed, eventsSent, lastEvent >>

connVars == << connState, hasFailed, attemptAfterFailed >>
deliveryVars == << eventsSent, lastEvent >>

VARIABLES
    seenTokenIds,     \* the module-level Set of the poller
    mainPc,           \* position of main(): "init", "firstCycle", "interval"
    cycles,           \* the executions of pollAndBroadcast: [pc, tokens, newTokenCount]
    started,          \* number of executions of pollAndBroadcast started
    fetched,          \* number of candidates returned so far (bounds the run)
    \* observations (history)
    startupIds,       \* identifiers returned by the startup invocation
    cycleIds,         \* identifiers returned to the executions of pollAndBroadcast
    pollerTriggers,   \* per identifier: pusher.trigger calls made by the poller
    pollerFailed,     \* identifiers whose poller publish was rejected by the broker
    pollerInformed,   \* identifiers whose rejected publish reached pollAndBroadcast
    passedOver,       \* identifiers a cycle passed over because they were recorded
    firstFaulty,      \* lowest execution of pollAndBroadcast in which a provider call
                      \* failed or a publish was rejected so far (0: none)
    \* the webhook route
    whReqs,           \* the POST requests received, in order: [pc, id, status, body,
                      \* events (what the request published), broker, response]
    whTriggers,       \* per identifier: pusher.trigger calls made by the webhook
    whGets            \* the GET requests: their number, the answer to the last one and
                      \* the number of POST requests received before it

pollerVars == << seenTokenIds, mainPc, cycles, started, fetched, startupIds,
                 cycleIds, pollerTriggers, pollerFailed, pollerInformed, passedOver,
                 firstFaulty >>
webhookVars == << whReqs, whTriggers, whGets >>

VARIABLES
    token,               \* the hook's `token` prop of the latest render
    maxDataPoints,       \* the hook's `maxDataPoints` option of the latest render
    initialDataPoints,   \* the hook's `initialDataPoints` option of the latest render
    chartData,           \* the React state handed to the renderer
    lastPriceRef,        \* lastPriceRef.current
    dataPointsRef,       \* dataPointsRef.current: the buffer
    initializedTokenRef, \* initializedTokenRef.current
    rafQueue,            \* pending requestAnimationFrame callbacks: the initData of each
    chartPc,             \* "constructed" (first render done, effects not yet run) or "mounted"
    chartClock,          \* Date.now(), in ms since the hook was constructed
    \* observations (history)
    renders,             \* number of re-renders with changed props
    appendCalls,         \* number of appendDataPoint calls
    seedCount,           \* number of times the buffer was replaced by a generated history
    seededIds,           \* identifiers the buffer has been seeded for
    reseeds,             \* seedings for an identifier that had been seeded before
    guardedReruns,       \* runs of the seed effect that the identifier check turned away
    priceAppends,        \* points appended by the price effect
    lastEvicted          \* the point removed by the latest overflow, with the buffer's head before it

chartVars == << token, maxDataPoints, initialDataPoints, chartData, lastPriceRef,
                dataPointsRef, initializedTokenRef, rafQueue, chartPc, chartClock,
                renders, appendCalls, seedCount, seededIds, reseeds, guardedReruns,
                priceAppends, lastEvicted >>

VARIABLES
    seedToken,           \* the token both calls of generateInitialData are given
    seedPoints,          \* the dataPoints argument of both calls
    seedNow,             \* Date.now(), in ms since the first call
    seedCalls,           \* number of calls made (0, 1 or 2)
    seedNow1,            \* Date.now() at the first call
    seedNow2,            \* Date.now() at the second call
    history1,            \* the result of the first call
    history2,            \* the result of the second call
    otherToken,          \* a token with another identifier and the same other fields
    otherCalls,          \* number of calls made with otherToken (0 or 1)
    historyOther         \* the result of the call with otherToken

seedVars == << seedToken, seedPoints, seedNow, seedCalls, seedNow1, seedNow2,
               history1, history2, otherToken, otherCalls, historyOther >>

VARIABLES
    payloadInput,        \* the candidate both producers are given
    pollerCalled,        \* broadcastNewToken(payloadInput) has run up to its await
    pollerPayload,       \* what it handed to pusher.trigger (nothing when it raised)
    webhookCalled,       \* the POST transform has run on payloadInput
    webhookPayload       \* what it handed to pusher.trigger (nothing when it raised)

payloadVars == << payloadInput, pollerCalled, pollerPayload, webhookCalled, webhookPayload >>

VARIABLES
    fetchPrimary,        \* how DEXScreener answers the call
    fetchFallback,       \* how CoinGecko answers when it is called
    fetchPc,             \* fetchNewlyCreatedTokens: "idle", "primary", "fallback", "returned", "raised"
    fetchCalls,          \* the providers called so far, in order
    fetchResult          \* the list returned

fetchVars == << fetchPrimary, fetchFallback, fetchPc, fetchCalls, fetchResult >>

VARIABLES
    storeTokens,         \* state.tokens of the tokens slice
    storeActions,        \* number of actions dispatched so far (bounds the run)
    storeReplaced,       \* setTokens has been dispatched
    lastAdd              \* the latest addNewToken: its payload, the list before and after

storeVars == << storeTokens, storeActions, storeReplaced, lastAdd >>

vars == << subVars, pollerVars, webhookVars, chartVars, seedVars, payloadVars, fetchVars,
           storeVars >>

\* what the actions of one part leave alone
SubFrame == UNCHANGED << pollerVars, webhookVars, chartVars, seedVars, payloadVars, fetchVars,
                           storeVars >>
PollerFrame == UNCHANGED << subVars, webhookVars, chartVars, seedVars, payloadVars, fetchVars,
                           storeVars >>
WebhookFrame == UNCHANGED << subVars, pollerVars, chartVars, seedVars, payloadVars, fetchVars,
                           storeVars >>
ChartFrame == UNCHANGED << subVars, pollerVars, webhookVars, seedVars, payloadVars, fetchVars,
                           storeVars >>
SeedFrame == UNCHANGED << subVars, pollerVars, webhookVars, chartVars, payloadVars, fetchVars,
                           storeVars >>
PayloadFrame == UNCHANGED << subVars, pollerVars, webhookVars, chartVars, seedVars,
                             fetchVars, storeVars >>
FetchFrame == UNCHANGED << subVars, pollerVars, webhookVars, chartVars, seedVars,
                           payloadVars, storeVars >>
StoreFrame == UNCHANGED << subVars, pollerVars, webhookVars, chartVars, seedVars,
                           payloadVars, fetchVars >>

(***************************************************************************)
(* PART 1 - usePusherTokenUpdates: the module-level singleton              *)
(***************************************************************************)
\* `null` of pusherInstance / channelInstance (live objects are numbered from 1)
NoInstance == 0
\* `null` of handlerRef.current
NoHandler == << >>

\* no event received yet
NoEvent == [called |-> {}, dispatched |-> {}, releases |-> 0,
            token |-> [id |-> "", price |-> 0, priceChange24h |-> 0]]

SubInit ==
    /\ pusherInstance = NoInstance
    /\ channelInstance = NoInstance
    /\ subscriberCount = 0
    /\ connectionHandlersBound = FALSE
    /\ handlerRef = [v \in Viewers |-> NoHandler]
    /\ mounted = [v \in Viewers |-> FALSE]
    /\ activeHandlers = {}
    /\ channelHandlers = {}
    /\ connBindCount = 0
    /\ subBindCount = 0
    /\ timers = << >>
    /\ connects = 0
    /\ disconnects = 0
    /\ subscribes = 0
    /\ unsubscribes = 0
    /\ acquires = 0
    /\ releases = 0
    /\ zeroReleases = 0
    /\ teardownCounts = {}
    /\ staleTeardowns = 0
    /\ connState = "none"
    /\ hasFailed = FALSE
    /\ attemptAfterFailed = FALSE
    /\ eventsSent = 0
    /\ lastEvent = NoEvent

\* `if (!pusherInstance)`: the faulty variant creates a connection on every mount
NeedNewPusher_everyMount == TRUE
NeedNewPusher == pusherInstance = NoInstance

\* `if (!channelInstance)`: the faulty variant subscribes on every mount
NeedSubscribe_everyMount == TRUE
NeedSubscribe == channelInstance = NoInstance

\* `if (subscriberCount === 0)` inside the timer callback: the faulty variant tears
\* down without looking at the refcount again
TeardownGuard_noRecheck == TRUE
\* and this faulty variant never tears down
TeardownGuard_never == FALSE
TeardownGuard == subscriberCount = 0

\* the effect body of usePusherTokenUpdates (a mount): acquire()
acquire(v) ==
    /\ ~mounted[v]
    /\ acquires < MaxMounts
    /\ LET newPusher == NeedNewPusher
           bindConn  == newPusher /\ ~connectionHandlersBound
           newChan   == NeedSubscribe
           h         == << v, acquires + 1 >>     \* this mount's handleNewToken closure
       IN  /\ pusherInstance' = IF newPusher THEN connects + 1 ELSE pusherInstance
           /\ connects' = IF newPusher THEN connects + 1 ELSE connects
           /\ connBindCount' = (IF newPusher THEN 0 ELSE connBindCount)
                                 + (IF bindConn THEN 1 ELSE 0)
           /\ connectionHandlersBound' = (connectionHandlersBound \/ bindConn)
           /\ subscriberCount' = subscriberCount + 1
           /\ channelInstance' = IF newChan THEN subscribes + 1 ELSE channelInstance
           /\ subscribes' = IF newChan THEN subscribes + 1 ELSE subscribes
           /\ subBindCount' = IF newChan THEN 1 ELSE subBindCount
           /\ handlerRef' = [handlerRef EXCEPT ![v] = h]
           /\ activeHandlers' = activeHandlers \cup {h}
           \* a new channel object starts with no 'token.created' handlers
           /\ channelHandlers' = (IF newChan THEN {} ELSE channelHandlers) \cup {h}
           \* `new Pusher(...)` starts to connect at once
           /\ connState' = IF newPusher THEN "connecting" ELSE connState
           /\ attemptAfterFailed' = (attemptAfterFailed \/ (newPusher /\ hasFailed))
    /\ mounted' = [mounted EXCEPT ![v] = TRUE]
    /\ acquires' = acquires + 1
    \* every grace timer still pending has now been followed by an acquire
    /\ timers' = [i \in 1..Len(timers) |-> [timers[i] EXCEPT !.superseded = TRUE]]
    /\ UNCHANGED << disconnects, unsubscribes, releases, zeroReleases,
                    teardownCounts, staleTeardowns, hasFailed, deliveryVars >>
    /\ SubFrame

\* the faulty variant unbinds with the event name alone, which removes every
\* handler of the event
Unbind_wholeEvent(handlers, h) == {}
\* `channelInstance.unbind('token.created', handlerRef.current)`
Unbind(handlers, h) == handlers \ {h}

\* the faulty variant of the cleanup leaves the closure active and bound
DropHandler_keeps(v) == UNCHANGED << activeHandlers, channelHandlers, handlerRef >>
\* what the cleanup does to the handler of its own mount: `isActive = false`,
\* and the unbind guarded by `if (handlerRef.current && channelInstance)`
DropHandler(v) ==
    LET h == handlerRef[v]
        unbind == h # NoHandler /\ channelInstance # NoInstance
    IN  /\ activeHandlers' = {x \in activeHandlers : x[1] # v}      \* isActive = false
        /\ channelHandlers' = IF unbind THEN Unbind(channelHandlers, h) ELSE channelHandlers
        /\ handlerRef' = IF unbind THEN [handlerRef EXCEPT ![v] = NoHandler] ELSE handlerRef

\* the cleanup returned by the effect (an unmount): release()
release(v) ==
    /\ mounted[v]
    /\ DropHandler(v)
    /\ subscriberCount' = subscriberCount - 1
    /\ timers' = IF subscriberCount' = 0
                   THEN Append(timers, [rem |-> GraceTicks, superseded |-> FALSE])
                   ELSE timers
    /\ zeroReleases' = IF subscriberCount' = 0 THEN zeroReleases + 1 ELSE zeroReleases
    /\ mounted' = [mounted EXCEPT ![v] = FALSE]
    /\ releases' = releases + 1
    /\ UNCHANGED << pusherInstance, channelInstance, connectionHandlersBound,
                    connBindCount, subBindCount, connects, disconnects, subscribes,
                    unsubscribes, acquires, teardownCounts, staleTeardowns,
                    connVars, deliveryVars >>
    /\ SubFrame

\* time passes: every pending grace timer gets one tick closer to its deadline
Tick ==
    /\ timers # << >>
    /\ timers[1].rem > 0
    /\ timers' = [i \in 1..Len(timers) |-> [timers[i] EXCEPT !.rem = @ - 1]]
    /\ UNCHANGED << pusherInstance, channelInstance, subscriberCount,
                    connectionHandlersBound, handlerRef, mounted, activeHandlers,
                    channelHandlers, connBindCount, subBindCount, connects, disconnects,
                    subscribes, unsubscribes, acquires, releases, zeroReleases,
                    teardownCounts, staleTeardowns, connVars, deliveryVars >>
    /\ SubFrame

\* the setTimeout callback of the cleanup, run when its 100 ms have elapsed
TimerFire ==
    /\ timers # << >>
    /\ timers[1].rem = 0
    /\ timers' = Tail(timers)
    /\ LET go       == TeardownGuard
           dropChan == go /\ channelInstance # NoInstance /\ pusherInstance # NoInstance
           dropConn == go /\ pusherInstance # NoInstance
       IN  /\ channelInstance' = IF dropChan THEN NoInstance ELSE channelInstance
           /\ channelHandlers' = IF dropChan THEN {} ELSE channelHandlers   \* unbind_all()
           /\ subBindCount' = IF dropChan THEN 0 ELSE subBindCount
           /\ unsubscribes' = IF dropChan THEN unsubscribes + 1 ELSE unsubscribes
           /\ pusherInstance' = IF dropConn THEN NoInstance ELSE pusherInstance
           /\ connBindCount' = IF dropConn THEN 0 ELSE connBindCount
           /\ disconnects' = IF dropConn THEN disconnects + 1 ELSE disconnects
           /\ connectionHandlersBound' = IF dropConn THEN FALSE ELSE connectionHandlersBound
           /\ connState' = IF dropConn THEN "none" ELSE connState
           /\ teardownCounts' = IF dropChan \/ dropConn
                                  THEN teardownCounts \cup {subscriberCount}
                                  ELSE teardownCounts
           /\ staleTeardowns' = IF (dropChan \/ dropConn) /\ timers[1].superseded
                                  THEN staleTeardowns + 1
                                  ELSE staleTeardowns
    /\ UNCHANGED << subscriberCount, handlerRef, mounted, activeHandlers,
                    connects, subscribes, acquires, releases, zeroReleases,
                    hasFailed, attemptAfterFailed, deliveryVars >>
    /\ SubFrame

\* what the hook leaves unchanged when the broker client acts
HookUnchanged ==
    UNCHANGED << pusherInstance, channelInstance, subscriberCount,
                 connectionHandlersBound, handlerRef, mounted, activeHandlers,
                 channelHandlers, connBindCount, subBindCount, timers, connects,
                 disconnects, subscribes, unsubscribes, acquires, releases,
                 zeroReleases, teardownCounts, staleTeardowns >>

\* the broker client reaches the broker ('connected' handler: a log line)
ConnEstablished ==
    /\ connState = "connecting"
    /\ connState' = "connected"
    /\ UNCHANGED << hasFailed, attemptAfterFailed, deliveryVars >>
    /\ HookUnchanged
    /\ SubFrame

\* the broker cannot be reached for unavailableTimeout, or the connection is
\* lost ('unavailable' handler: a log line)
ConnUnavailable ==
    /\ connState \in {"connecting", "connected"}
    /\ connState' = "unavailable"
    /\ UNCHANGED << hasFailed, attemptAfterFailed, deliveryVars >>
    /\ HookUnchanged
    /\ SubFrame

\* the broker client retries by itself ('connecting' handler: a log line)
ConnRetry ==
    /\ connState = "unavailable"
    /\ connState' = "connecting"
    /\ attemptAfterFailed' = (attemptAfterFailed \/ hasFailed)
    /\ UNCHANGED << hasFailed, deliveryVars >>
    /\ HookUnchanged
    /\ SubFrame

\* the faulty variant of the 'failed' handler asks the client to connect again
onFailed_reconnects == "connecting"
\* the state the connection is in after the 'failed' handler has run: the
\* handler writes a log line and nothing else
onFailed == "failed"

\* the broker client gives up ('failed' handler)
ConnFailed ==
    /\ connState \in {"connecting", "connected"}
    /\ connState' = onFailed
    /\ hasFailed' = TRUE
    /\ attemptAfterFailed' = (attemptAfterFailed \/ connState' = "connecting")
    /\ UNCHANGED deliveryVars
    /\ HookUnchanged
    /\ SubFrame

\* `if (!isActive) return` of handleNewToken: the faulty variant dispatches
\* whether or not the component is still mounted
IsActive_always(h) == TRUE
IsActive(h) == h \in activeHandlers

\* the faulty variant never finds the token
TokenExists_never(list, id) == FALSE
\* `state.tokens.some((t) => t.id === action.payload.id)`
TokenExists(list, id) == \E n \in 1..Len(list) : list[n].id = id

\* the addNewToken reducer: the payload is put in front unless its id is in the list
AddedTo(list, tok) == IF TokenExists(list, tok.id) THEN list ELSE << tok >> \o list

\* the list after n handlers have dispatched addNewToken(tok), one after the other
RECURSIVE Dispatched(_, _, _)
Dispatched(list, tok, n) ==
    IF n = 0 THEN list ELSE Dispatched(AddedTo(list, tok), tok, n - 1)

\* a 'token.created' event arrives on the subscribed channel of a connected
\* client: every handler bound to it is called, and each one that is still
\* active dispatches addNewToken to the store
Deliver(tok) ==
    /\ connState = "connected"
    /\ channelInstance # NoInstance
    /\ eventsSent < MaxEvents
    /\ eventsSent' = eventsSent + 1
    /\ LET dispatching == { h \in channelHandlers : IsActive(h) }
       IN  /\ lastEvent' = [called |-> channelHandlers,
                            dispatched |-> dispatching,
                            releases |-> releases,
                            token |-> tok]
           /\ storeTokens' = Dispatched(storeTokens, tok, Cardinality(dispatching))
    /\ UNCHANGED << storeActions, storeReplaced, lastAdd >>
    /\ UNCHANGED connVars
    /\ HookUnchanged
    /\ UNCHANGED << pollerVars, webhookVars, chartVars, seedVars, payloadVars, fetchVars >>

\* the token of the events when the contents of the store are not looked at
LiveToken == [id |-> "x1", price |-> 1000, priceChange24h |-> 0]

\* the hook by itself
SubNext ==
    \/ \E v \in Viewers : acquire(v)
    \/ \E v \in Viewers : release(v)
    \/ Tick
    \/ TimerFire

\* the hook, the broker client and the events of the channel
LiveNext ==
    \/ \E v \in Viewers : acquire(v)
    \/ \E v \in Viewers : release(v)
    \/ Tick
    \/ TimerFire
    \/ ConnEstablished
    \/ ConnUnavailable
    \/ ConnRetry
    \/ ConnFailed
    \/ Deliver(LiveToken)


(***************************************************************************)
(* PART 2 - the poller (scripts/mobula-poller.ts) and the webhook route    *)
(*          (app/api/broadcast/route.ts)                                   *)
(* A candidate is reduced to the two fields that decide its identifier;    *)
(* "" stands for a missing (undefined or empty, both falsy) field.         *)
(***************************************************************************)
\* number of executions of pollAndBroadcast explored (the immediate one and
\* the interval's)
MaxCycles == 3
\* total number of candidates the providers return over the whole run
MaxFetched == 3
\* number of rows one provider call returns at most
MaxBatch == 2
\* number of webhook POST requests explored
MaxWebhookCalls == 2
\* number of GET requests to the webhook route explored
MaxProbes == 2
\* `pairs.slice(0, 20)`
PrimaryLimit == 20

\* instrument identifiers the providers and the webhook caller use
Ids == {"x1", "x2"}
\* what String(Date.now()) can give when a webhook body has no identifier
TimeStamps == {"1762128000000", "1762128000001"}
\* candidates: with an id, with only an address, with neither
Candidates == { [id |-> "x1", address |-> ""],
                [id |-> "x2", address |-> "x1"],
                [id |-> "",   address |-> "x1"],
                [id |-> "",   address |-> ""] }
\* a CoinGecko row maps to id = address = coin.id
FallbackCandidates == { c \in [id : Ids \cup {""}, address : Ids \cup {""}] : c.id = c.address }

AllIds == Ids \cup TimeStamps

\* sequences over S of length at most n
SeqUpTo(S, n) == UNION { [1..k -> S] : k \in 0..n }

\* tokens.slice(0, n)
Take(list, n) == SubSeq(list, 1, IF Len(list) < n THEN Len(list) ELSE n)

\* `token.id || token.address`
TokenIdOf(tok) == IF tok.id # "" THEN tok.id ELSE tok.address

\* A provider call ends in an exception of fetch ("throw"), a non-OK status
\* ("status"), an OK status with a body that response.json() rejects
\* ("badjson") or that is JSON of another shape, on which the transform raises
\* a TypeError ("badshape"), or an OK status with a body ("ok") holding rows.
ProviderOutcomes(rows, n) ==
    { [kind |-> k, rows |-> << >>] : k \in {"throw", "status", "badjson", "badshape"} }
      \cup { [kind |-> "ok", rows |-> r] : r \in SeqUpTo(rows, n) }

\* fetchFromCoinGecko(): [] on a non-OK status or an exception
fetchFromCoinGecko(fallback) ==
    IF fallback.kind = "ok" THEN fallback.rows ELSE << >>

\* fetchNewlyCreatedTokens(): the first 20 DEXScreener pairs when the call
\* answered OK with at least one pair, else whatever CoinGecko gives
fetchNewlyCreatedTokens(primary, fallback) ==
    IF primary.kind = "ok" /\ Len(primary.rows) > 0
      THEN Take(primary.rows, PrimaryLimit)
      ELSE fetchFromCoinGecko(fallback)

\* a provider call of the invocation failed: the primary one, or the fallback
\* one when it was made
ProviderFailed(primary, fallback) ==
    \/ primary.kind # "ok"
    \/ Len(primary.rows) = 0 /\ fallback.kind # "ok"

\* the faulty variant has no catch block around the primary call
fetchSettles_noCatch(primary, fallback) ==
    IF primary.kind \in {"throw", "badjson", "badshape"} THEN "rejected" ELSE "resolved"
\* how the promise of fetchNewlyCreatedTokens settles: every exception of
\* either call ends in a catch block that returns a list
fetchSettles(primary, fallback) == "resolved"

\* what one invocation of the Source Adapter can end in with `n` candidates
\* left in the run's budget: how its promise settles, the list it returns,
\* and whether one of its provider calls failed
FetchOutcomes(n) ==
    LET m == IF n < MaxBatch THEN n ELSE MaxBatch
    IN  { [settles |-> fetchSettles(p, f), list |-> fetchNewlyCreatedTokens(p, f),
           failed |-> ProviderFailed(p, f)] :
            p \in ProviderOutcomes(Candidates, m), f \in ProviderOutcomes(FallbackCandidates, m) }

\* the lists one invocation can return
FetchResults(n) == { o.list : o \in FetchOutcomes(n) }

(***************************************************************************)
(* The published token.  Strings that are only compared are TLA+ strings;  *)
(* a symbol is a sequence of character codes (toUpperCase acts on it).     *)
(* "" and 0 stand for a field that is missing or holds another falsy value *)
(* (null, '', 0): `a || b` treats them alike.  Prices are in thousandths,  *)
(* volumes in units that are multiples of ten, so that * 0.3 is exact.     *)
(***************************************************************************)
\* 'UNKNOWN'
UnknownSymbol == << 85, 78, 75, 78, 79, 87, 78 >>
\* a symbol field: missing (or null), a string, or a value that is neither (a
\* JSON number, object, boolean)
NoSymbol == [kind |-> "undefined", chars |-> << >>]
StringSymbol(chars) == [kind |-> "string", chars |-> chars]
OtherSymbol == [kind |-> "number", chars |-> << >>]

\* a provider row or a webhook tokenData with every field missing
NoFields == [id |-> "", address |-> "", symbol |-> NoSymbol, name |-> "", price |-> 0,
             priceChange24h |-> 0, volume24h |-> 0, volume |-> 0, marketCap |-> 0,
             market_cap |-> 0, liquidity |-> 0, holders |-> 0, blockchain |-> "",
             chain |-> "", logo |-> "", image |-> "", category |-> ""]

\* `a || b` on strings and on numbers
OrStr(a, b) == IF a # "" THEN a ELSE b
OrNum(a, b) == IF a # 0 THEN a ELSE b

\* String.prototype.toUpperCase on ASCII letters
toUpperCase(chars) ==
    [k \in 1..Len(chars) |-> IF chars[k] \in 97..122 THEN chars[k] - 32 ELSE chars[k]]

\* `x.symbol?.toUpperCase()` raises a TypeError when the symbol is neither
\* missing nor a string
SymbolThrows(sym) == sym.kind = "number"

\* the faulty variant lets an empty symbol through
symbolOrUnknown_noSentinel(sym) ==
    IF sym.kind = "string" THEN toUpperCase(sym.chars) ELSE << >>
\* `x.symbol?.toUpperCase() || 'UNKNOWN'`
symbolOrUnknown(sym) ==
    IF sym.kind = "string" /\ sym.chars # << >> THEN toUpperCase(sym.chars) ELSE UnknownSymbol

\* `v * 0.3`
ThirtyPercent(v) == (v * 3) \div 10

\* `'solana'` (BLOCKCHAIN)
BLOCKCHAIN == "solana"

\* the faulty variant keeps the category of the candidate
CategoryOf_incoming(tok) == OrStr(tok.category, "new")
\* `category: 'new' as const`
CategoryOf(tok) == "new"

\* formattedToken of broadcastNewToken(token); `now` is String(Date.now()) and
\* rnd is Math.floor(Math.random() * 10000)
formattedToken(tok, now, rnd) ==
    [id             |-> OrStr(tok.id, OrStr(tok.address, now)),
     symbol         |-> symbolOrUnknown(tok.symbol),
     name           |-> OrStr(tok.name, "New Token"),
     price          |-> OrNum(tok.price, 0),
     priceChange24h |-> OrNum(tok.priceChange24h, 0),
     volume24h      |-> OrNum(tok.volume24h, OrNum(tok.volume, 0)),
     marketCap      |-> OrNum(tok.marketCap, OrNum(tok.market_cap, 0)),
     liquidity      |-> OrNum(tok.liquidity,
                              ThirtyPercent(OrNum(tok.volume24h, OrNum(tok.volume, 0)))),
     holders        |-> OrNum(tok.holders, rnd),
     chain          |-> OrStr(tok.blockchain, BLOCKCHAIN),
     logo           |-> OrStr(tok.logo, OrStr(tok.image, "")),
     category       |-> CategoryOf(tok)]

\* `token` of POST, built from tokenData
webhookToken(tokenData, now, rnd) ==
    [id             |-> OrStr(tokenData.id, OrStr(tokenData.address, now)),
     symbol         |-> symbolOrUnknown(tokenData.symbol),
     name           |-> OrStr(tokenData.name, "New Token"),
     price          |-> OrNum(tokenData.price, 0),
     priceChange24h |-> OrNum(tokenData.priceChange24h, 0),
     volume24h      |-> OrNum(tokenData.volume24h, OrNum(tokenData.volume, 0)),
     marketCap      |-> OrNum(tokenData.marketCap, OrNum(tokenData.market_cap, 0)),
     liquidity      |-> OrNum(tokenData.liquidity, ThirtyPercent(OrNum(tokenData.volume24h, 0))),
     holders        |-> OrNum(tokenData.holders, rnd),
     chain          |-> OrStr(tokenData.blockchain, OrStr(tokenData.chain, "solana")),
     logo           |-> OrStr(tokenData.logo, OrStr(tokenData.image, "")),
     category       |-> CategoryOf(tokenData)]

\* pusher.trigger('pulse', 'token.created', data)
PulseEvent(data) == [channel |-> "pulse", event |-> "token.created", data |-> data]

IdleCycle == [pc |-> "idle", tokens |-> << >>, newTokenCount |-> 0]

\* the lower of an execution number and one recorded before (0: none)
Lowest(recorded, c) == IF recorded = 0 \/ c < recorded THEN c ELSE recorded

PollerInit ==
    /\ seenTokenIds = {}
    /\ mainPc = "init"
    /\ cycles = [c \in 1..MaxCycles |-> IdleCycle]
    /\ started = 0
    /\ fetched = 0
    /\ startupIds = {}
    /\ cycleIds = {}
    /\ pollerTriggers = [i \in AllIds |-> 0]
    /\ pollerFailed = {}
    /\ pollerInformed = {}
    /\ passedOver = {}
    /\ firstFaulty = 0

\* no response sent yet
NoResponse == [pending |-> TRUE]

\* no GET request yet
NoGet == [count |-> 0, status |-> 0, response |-> NoResponse, after |-> 0]

WebhookInit ==
    /\ whReqs = << >>
    /\ whTriggers = [i \in AllIds |-> 0]
    /\ whGets = NoGet

\* the identifiers initializeSeenTokens adds for the startup list: the faulty variant
\* forgets to record them
StartupIdsToAdd_none(list) == {}
StartupIdsToAdd(list) ==
    { TokenIdOf(list[i]) : i \in 1..Len(list) } \ {""}

\* `seenTokenIds.has(tokenId)`: the faulty variant never finds an identifier
AlreadySeen_never(seen, tokenId) == FALSE
AlreadySeen(seen, tokenId) == tokenId \in seen

\* the faulty variant leaves the insertion until after the awaited publish
MarkSeen_afterPublish(seen, tokenId) == seen
\* `seenTokenIds.add(tokenId)`, in the same synchronous stretch as the check
MarkSeen(seen, tokenId) == seen \cup {tokenId}

\* the faulty variant forgets the identifier so that a later cycle tries again
SeenAfterFailure_forgets(seen, tokenId) == seen \ {tokenId}
\* the record after the catch block of broadcastNewToken: the block writes a
\* log line and leaves the record alone
SeenAfterFailure(seen, tokenId) == seen

\* the faulty variant lets a rejected publish out of broadcastNewToken
broadcastSettles_rethrows(ok) == IF ok THEN "resolved" ELSE "rejected"
\* how the promise of broadcastNewToken settles when pusher.trigger resolved
\* (ok) or was rejected: the catch block logs the error and the function
\* returns normally
broadcastSettles(ok) == "resolved"

\* `if (!tokenId) continue`: the faulty variant lets every candidate through
NoTokenId_never(tokenId) == FALSE
NoTokenId(tokenId) == tokenId = ""

\* the for loop of pollAndBroadcast up to its next await: the candidates
\* without identifier and the already seen ones are passed over
RECURSIVE SkipToUnseen(_, _)
SkipToUnseen(tokens, seen) ==
    IF tokens = << >> THEN << >>
    ELSE IF NoTokenId(TokenIdOf(tokens[1])) \/ AlreadySeen(seen, TokenIdOf(tokens[1]))
           THEN SkipToUnseen(Tail(tokens), seen)
           ELSE tokens

\* the loop runs from `tokens` until it awaits the publish of an unseen
\* candidate (marked seen, trigger called) or the list ends
RunLoop(c, tokens, count) ==
    LET rest == SkipToUnseen(tokens, seenTokenIds)
    IN  /\ passedOver' = passedOver \cup
               ({ TokenIdOf(tokens[k]) : k \in 1..(Len(tokens) - Len(rest)) } \ {""})
        /\ IF rest = << >>
             THEN /\ cycles' = [cycles EXCEPT ![c] =
                                   [pc |-> "done", tokens |-> << >>, newTokenCount |-> count]]
                  \* main() awaits the first execution, then calls setInterval
                  /\ mainPc' = IF c = 1 THEN "interval" ELSE mainPc
                  /\ UNCHANGED << seenTokenIds, pollerTriggers >>
             ELSE /\ seenTokenIds' = MarkSeen(seenTokenIds, TokenIdOf(rest[1]))
                  /\ pollerTriggers' = [pollerTriggers EXCEPT ![TokenIdOf(rest[1])] = @ + 1]
                  /\ cycles' = [cycles EXCEPT ![c] =
                                   [pc |-> "publish", tokens |-> rest, newTokenCount |-> count + 1]]
                  /\ UNCHANGED mainPc

\* initializeSeenTokens(): the startup invocation resolves, its identifiers
\* are recorded, and main() goes on to call pollAndBroadcast()
initializeSeenTokens ==
    /\ mainPc = "init"
    /\ \E list \in FetchResults(MaxFetched - fetched) :
         /\ seenTokenIds' = seenTokenIds \cup StartupIdsToAdd(list)
         /\ startupIds' = { TokenIdOf(list[i]) : i \in 1..Len(list) } \ {""}
         /\ fetched' = fetched + Len(list)
    /\ mainPc' = "firstCycle"
    /\ cycles' = [cycles EXCEPT ![1] = [IdleCycle EXCEPT !.pc = "fetch"]]
    /\ started' = 1
    /\ UNCHANGED << cycleIds, pollerTriggers, pollerFailed, pollerInformed, passedOver,
                    firstFaulty >>
    /\ PollerFrame

\* the setInterval callback: one more execution of pollAndBroadcast starts,
\* whether or not the earlier ones have finished
IntervalFire ==
    /\ mainPc = "interval"
    /\ started < MaxCycles
    /\ cycles' = [cycles EXCEPT ![started + 1] = [IdleCycle EXCEPT !.pc = "fetch"]]
    /\ started' = started + 1
    /\ UNCHANGED << seenTokenIds, mainPc, fetched, startupIds, cycleIds, pollerTriggers,
                    pollerFailed, pollerInformed, passedOver, firstFaulty >>
    /\ PollerFrame

\* `await fetchNewlyCreatedTokens()` settles in execution c.  Both provider
\* calls sit in try/catch blocks that end in a return, so the promise is
\* resolved with a list; were it rejected, pollAndBroadcast, which has no
\* try/catch, would end there.
FetchDone(c) ==
    /\ cycles[c].pc = "fetch"
    /\ \E o \in FetchOutcomes(MaxFetched - fetched) :
         /\ firstFaulty' = IF o.failed THEN Lowest(firstFaulty, c) ELSE firstFaulty
         /\ IF o.settles = "resolved"
               THEN /\ fetched' = fetched + Len(o.list)
                    /\ cycleIds' = cycleIds \cup
                                     ({ TokenIdOf(o.list[i]) : i \in 1..Len(o.list) } \ {""})
                    /\ RunLoop(c, o.list, 0)
               ELSE /\ cycles' = [cycles EXCEPT ![c].pc = "aborted"]
                    /\ UNCHANGED << fetched, cycleIds, seenTokenIds, mainPc,
                                    pollerTriggers, passedOver >>
    /\ UNCHANGED << started, startupIds, pollerFailed, pollerInformed >>
    /\ PollerFrame

\* `await pusher.trigger(...)` settles in execution c: broadcastNewToken logs
\* either way and returns; the loop goes on to its 500 ms delay.  (Were the
\* promise of broadcastNewToken rejected, pollAndBroadcast, which has no
\* try/catch, would end there.)
PublishDone(c) ==
    /\ cycles[c].pc = "publish"
    /\ \E ok \in BOOLEAN :
         /\ pollerFailed' = IF ok THEN pollerFailed
                            ELSE pollerFailed \cup {TokenIdOf(cycles[c].tokens[1])}
         /\ firstFaulty' = IF ok THEN firstFaulty ELSE Lowest(firstFaulty, c)
         /\ seenTokenIds' = IF ok THEN seenTokenIds
                            ELSE SeenAfterFailure(seenTokenIds, TokenIdOf(cycles[c].tokens[1]))
         /\ IF broadcastSettles(ok) = "resolved"
              THEN /\ cycles' = [cycles EXCEPT ![c].pc = "delay"]
                   /\ UNCHANGED pollerInformed
              ELSE /\ cycles' = [cycles EXCEPT ![c].pc = "aborted"]
                   /\ pollerInformed' = pollerInformed \cup {TokenIdOf(cycles[c].tokens[1])}
    /\ UNCHANGED << mainPc, started, fetched, startupIds, cycleIds,
                    pollerTriggers, passedOver >>
    /\ PollerFrame

\* the 500 ms delay ends in execution c: the loop moves to the next candidate
DelayDone(c) ==
    /\ cycles[c].pc = "delay"
    /\ RunLoop(c, Tail(cycles[c].tokens), cycles[c].newTokenCount)
    /\ UNCHANGED << started, fetched, startupIds, cycleIds, pollerFailed, pollerInformed,
                    firstFaulty >>
    /\ PollerFrame

\* What request.json() gives: it raises on a body that is no JSON
\* ("invalid"); JSON null has no .data (TypeError); for any other JSON value
\* tokenData is body.data when that is truthy, else the body itself.
InvalidBody == [kind |-> "invalid", wrapped |-> FALSE, fields |-> NoFields]
NullBody == [kind |-> "null", wrapped |-> FALSE, fields |-> NoFields]
JsonBody(wrapped, fields) == [kind |-> "json", wrapped |-> wrapped, fields |-> fields]

\* "test", "moon"
SymTest == StringSymbol(<< 116, 101, 115, 116 >>)
SymMoon == StringSymbol(<< 109, 111, 111, 110 >>)

\* the bodies that differ in what decides the identifier
IdBodies ==
    { InvalidBody,
      JsonBody(FALSE, [NoFields EXCEPT !.id = "x1"]),
      JsonBody(FALSE, [NoFields EXCEPT !.id = "x2", !.address = "x1"]),
      JsonBody(FALSE, NoFields) }

\* the bodies a webhook caller can send: those above, and bodies that differ
\* in the other fields (the first one is Scenario B, {"data": {"symbol":
\* "TEST", "price": 1.23}}; the second one is that of test-webhook.sh)
WebhookBodies ==
    IdBodies \cup
    { NullBody,
      JsonBody(TRUE, [NoFields EXCEPT !.symbol = StringSymbol(<< 84, 69, 83, 84 >>),
                                      !.price = 1230]),
      JsonBody(TRUE, [NoFields EXCEPT !.id = "x1", !.symbol = SymMoon, !.name = "Moon Token",
                                      !.price = 1, !.priceChange24h = 150,
                                      !.volume24h = 5000, !.marketCap = 25000,
                                      !.liquidity = 1500, !.holders = 8500,
                                      !.blockchain = "solana", !.logo = "moon.png",
                                      !.category = "migrated"]),
      JsonBody(TRUE, [NoFields EXCEPT !.address = "x2", !.symbol = SymTest,
                                      !.volume24h = 1000, !.category = "final-stretch"]),
      JsonBody(TRUE, [NoFields EXCEPT !.id = "x2", !.volume = 2000, !.market_cap = 70,
                                      !.chain = "base", !.image = "x2.png"]),
      JsonBody(TRUE, [NoFields EXCEPT !.id = "x1", !.symbol = OtherSymbol]),
      JsonBody(TRUE, [NoFields EXCEPT !.id = "x1", !.symbol = StringSymbol(<< >>)]) }

\* what Math.floor(Math.random() * 10000) can give
RandomDraws == { 0, 4821 }

\* the 500 response of the catch block
FailureResponse(error) ==
    [success |-> FALSE, error |-> "Failed to broadcast", details |-> error]

\* the faulty variant answers 200 whatever pusher.trigger did
postOutcome_alwaysSuccess(ok, tok, at) ==
    [status   |-> 200,
     response |-> [success |-> TRUE, message |-> "Token broadcasted successfully",
                   token |-> tok.symbol, timestamp |-> at]]
\* what POST returns once pusher.trigger has settled: the success response, or
\* the catch block's response when it was rejected
postOutcome(ok, tok, at) ==
    IF ok
      THEN [status   |-> 200,
            response |-> [success |-> TRUE, message |-> "Token broadcasted successfully",
                          token |-> tok.symbol, timestamp |-> at]]
      ELSE [status |-> 500, response |-> FailureResponse("Error: pusher")]

\* POST, up to its await: request.json() raises, or body.data or the symbol
\* raises a TypeError (500 from the catch block, nothing published); else the
\* token is built and pusher.trigger is called, with no look at any record of
\* earlier publishes
WebhookPost(body, now, rnd) ==
    /\ Len(whReqs) < MaxWebhookCalls
    /\ IF body.kind = "invalid" \/ body.kind = "null" \/ SymbolThrows(body.fields.symbol)
         THEN /\ whReqs' = Append(whReqs,
                     [pc |-> "done", id |-> "", status |-> 500, body |-> body,
                      events |-> << >>, broker |-> "none",
                      response |-> FailureResponse(IF body.kind = "invalid"
                                                     THEN "SyntaxError" ELSE "TypeError")])
              /\ UNCHANGED whTriggers
         ELSE LET tok == webhookToken(body.fields, now, rnd)
              IN  /\ whTriggers' = [whTriggers EXCEPT ![tok.id] = @ + 1]
                  /\ whReqs' = Append(whReqs,
                         [pc |-> "publish", id |-> tok.id, status |-> 0, body |-> body,
                          events |-> << PulseEvent(tok) >>, broker |-> "pending",
                          response |-> NoResponse])
    /\ UNCHANGED whGets
    /\ WebhookFrame

\* POST, after its await: pusher.trigger settled for request k (ok: the
\* broker accepted the event); `at` is new Date().toISOString()
WebhookRespond(k, ok, at) ==
    /\ k \in 1..Len(whReqs)
    /\ whReqs[k].pc = "publish"
    /\ LET out == postOutcome(ok, whReqs[k].events[1].data, at)
       IN  whReqs' = [whReqs EXCEPT ![k] =
                         [@ EXCEPT !.pc = "done", !.status = out.status,
                                   !.broker = IF ok THEN "accepted" ELSE "rejected",
                                   !.response = out.response]]
    /\ UNCHANGED << whTriggers, whGets >>
    /\ WebhookFrame

\* the faulty variant of GET publishes a test event, as POST does
getOutcome_publishes(at) ==
    [status   |-> 200,
     response |-> [success |-> TRUE, timestamp |-> at,
                   message |-> "Broadcast API is working! Use POST to receive webhooks."],
     events   |-> << PulseEvent([id |-> "x1"]) >>]
\* GET: what it answers and what it publishes.  NextResponse.json of a
\* literal does not raise, so the catch block is never entered.
getOutcome(at) ==
    [status   |-> 200,
     response |-> [success |-> TRUE, timestamp |-> at,
                   message |-> "Broadcast API is working! Use POST to receive webhooks."],
     events   |-> << >>]

\* GET /api/broadcast; `at` is new Date().toISOString()
WebhookGet(at) ==
    /\ whGets.count < MaxProbes
    /\ LET out == getOutcome(at)
       IN  /\ whGets' = [count |-> whGets.count + 1, status |-> out.status,
                         response |-> out.response, after |-> Len(whReqs)]
           /\ whTriggers' = [i \in AllIds |->
                               whTriggers[i] + Cardinality({ n \in 1..Len(out.events) :
                                                              out.events[n].data.id = i })]
    /\ UNCHANGED whReqs
    /\ WebhookFrame

PollerNext ==
    \/ initializeSeenTokens
    \/ IntervalFire
    \/ \E c \in 1..MaxCycles : FetchDone(c)
    \/ \E c \in 1..MaxCycles : PublishDone(c)
    \/ \E c \in 1..MaxCycles : DelayDone(c)

\* the webhook route with every body, random draw and time stamp
WebhookNext ==
    \/ \E body \in WebhookBodies, now \in TimeStamps, rnd \in RandomDraws :
         WebhookPost(body, now, rnd)
    \/ \E k \in 1..MaxWebhookCalls, ok \in BOOLEAN, at \in TimeStamps :
         WebhookRespond(k, ok, at)

\* the webhook route as the poller's neighbour: the bodies that decide the
\* identifier, one request time, one random draw and one response time
WebhookIdNext ==
    \/ \E body \in IdBodies : WebhookPost(body, "1762128000000", 4821)
    \/ \E k \in 1..MaxWebhookCalls, ok \in BOOLEAN :
         WebhookRespond(k, ok, "1762128000000")

\* the route with both of its handlers
ProbeNext ==
    \/ \E body \in IdBodies : WebhookPost(body, "1762128000000", 4821)
    \/ \E k \in 1..MaxWebhookCalls, ok \in BOOLEAN :
         WebhookRespond(k, ok, "1762128000000")
    \/ \E at \in TimeStamps : WebhookGet(at)

(***************************************************************************)
(* fetchNewlyCreatedTokens, await by await                                 *)
(***************************************************************************)
\* before any call
FetchIdle ==
    /\ fetchPrimary = [kind |-> "throw", rows |-> << >>]
    /\ fetchFallback = [kind |-> "throw", rows |-> << >>]
    /\ fetchPc = "idle"
    /\ fetchCalls = << >>
    /\ fetchResult = << >>

\* the two providers answer in any of the ways they can
FetchInit ==
    /\ fetchPrimary \in ProviderOutcomes(Candidates, MaxBatch)
    /\ fetchFallback \in ProviderOutcomes(FallbackCandidates, MaxBatch)
    /\ fetchPc = "idle"
    /\ fetchCalls = << >>
    /\ fetchResult = << >>

\* the faulty variant has no try/catch around the body of fetchFromCoinGecko
CoinGeckoRaises_noCatch(outcome) == outcome.kind \in {"throw", "badjson", "badshape"}
\* whether fetchFromCoinGecko lets an exception out: its whole body is inside
\* try, and the catch block returns []
CoinGeckoRaises(outcome) == FALSE

\* fetchNewlyCreatedTokens() is called: `await fetch(url)` of DEXScreener
FetchCall ==
    /\ fetchPc = "idle"
    /\ fetchPc' = "primary"
    /\ fetchCalls' = << "dexscreener" >>
    /\ UNCHANGED << fetchPrimary, fetchFallback, fetchResult >>
    /\ FetchFrame

\* the DEXScreener call settles: with an OK status and at least one pair the
\* first 20 pairs are returned; on a non-OK status or no pair the code falls
\* through to fetchFromCoinGecko(), on an exception the catch block calls it
PrimarySettles ==
    /\ fetchPc = "primary"
    /\ IF fetchPrimary.kind = "ok" /\ Len(fetchPrimary.rows) > 0
         THEN /\ fetchPc' = "returned"
              /\ fetchResult' = Take(fetchPrimary.rows, PrimaryLimit)
              /\ UNCHANGED fetchCalls
         ELSE /\ fetchPc' = "fallback"
              /\ fetchCalls' = Append(fetchCalls, "coingecko")
              /\ UNCHANGED fetchResult
    /\ UNCHANGED << fetchPrimary, fetchFallback >>
    /\ FetchFrame

\* the CoinGecko call settles and fetchNewlyCreatedTokens returns what
\* fetchFromCoinGecko() gives
FallbackSettles ==
    /\ fetchPc = "fallback"
    /\ IF CoinGeckoRaises(fetchFallback)
         THEN /\ fetchPc' = "raised"
              /\ UNCHANGED fetchResult
         ELSE /\ fetchPc' = "returned"
              /\ fetchResult' = fetchFromCoinGecko(fetchFallback)
    /\ UNCHANGED << fetchPrimary, fetchFallback, fetchCalls >>
    /\ FetchFrame

FetchNext ==
    \/ FetchCall
    \/ PrimarySettles
    \/ FallbackSettles

(***************************************************************************)
(* The two transforms side by side: broadcastNewToken (poller) and the     *)
(* token of POST (webhook route), applied to the same candidate.           *)
(***************************************************************************)
\* candidates that differ in the fields the transforms look at
PayloadInputs ==
    { [NoFields EXCEPT !.id = i, !.symbol = sym, !.volume24h = v24, !.volume = v,
                       !.liquidity = liq, !.holders = h, !.category = cat] :
        i \in {"x1", ""}, sym \in {NoSymbol, SymTest, OtherSymbol},
        v24 \in {0, 1000}, v \in {0, 2000}, liq \in {0, 500}, h \in {0, 8500},
        cat \in {"", "migrated"} }

\* before any call
PayloadIdle ==
    /\ payloadInput = NoFields
    /\ pollerCalled = FALSE
    /\ pollerPayload = << >>
    /\ webhookCalled = FALSE
    /\ webhookPayload = << >>

PayloadInit ==
    /\ payloadInput \in PayloadInputs
    /\ pollerCalled = FALSE
    /\ pollerPayload = << >>
    /\ webhookCalled = FALSE
    /\ webhookPayload = << >>

\* broadcastNewToken(token) up to `await pusher.trigger(...)`; an exception
\* on the way is caught and logged, and nothing is published
broadcastNewToken(now, rnd) ==
    /\ ~pollerCalled
    /\ pollerCalled' = TRUE
    /\ pollerPayload' = IF SymbolThrows(payloadInput.symbol) THEN << >>
                        ELSE << PulseEvent(formattedToken(payloadInput, now, rnd)) >>
    /\ UNCHANGED << payloadInput, webhookCalled, webhookPayload >>
    /\ PayloadFrame

\* POST from `const token = {...}` up to `await pusher.trigger(...)`; an
\* exception on the way leads to the catch block, and nothing is published
postToken(now, rnd) ==
    /\ ~webhookCalled
    /\ webhookCalled' = TRUE
    /\ webhookPayload' = IF SymbolThrows(payloadInput.symbol) THEN << >>
                         ELSE << PulseEvent(webhookToken(payloadInput, now, rnd)) >>
    /\ UNCHANGED << payloadInput, pollerCalled, pollerPayload >>
    /\ PayloadFrame

PayloadNext ==
    \/ \E now \in TimeStamps, rnd \in RandomDraws : broadcastNewToken(now, rnd)
    \/ \E now \in TimeStamps, rnd \in RandomDraws : postToken(now, rnd)

(***************************************************************************)
(* The tokens slice of the store (store/tokensSlice.ts).  A token is       *)
(* reduced to the fields the reducers read or write.                       *)
(***************************************************************************)
\* number of actions dispatched to the store
MaxStoreActions == 3
\* length of the list a setTokens action carries
MaxListed == 2

\* token "x1" at price 1.0 (0 %) and at price 2.0 (+25 %), "x2" at 1.0, "x3" at 2.0
StoreTokens ==
    { [id |-> "x1", price |-> 1000, priceChange24h |-> 0],
      [id |-> "x1", price |-> 2000, priceChange24h |-> 25],
      [id |-> "x2", price |-> 1000, priceChange24h |-> 0],
      [id |-> "x3", price |-> 2000, priceChange24h |-> 25] }

\* no addNewToken dispatched yet
NoAdd == [done |-> FALSE, payload |-> [id |-> "", price |-> 0, priceChange24h |-> 0],
          before |-> << >>, after |-> << >>]

\* initialState
StoreInit ==
    /\ storeTokens = << >>
    /\ storeActions = 0
    /\ storeReplaced = FALSE
    /\ lastAdd = NoAdd

\* setTokens: the list is replaced by the payload
setTokens(list) ==
    /\ storeActions < MaxStoreActions
    /\ storeTokens' = list
    /\ storeActions' = storeActions + 1
    /\ storeReplaced' = TRUE
    /\ UNCHANGED lastAdd
    /\ StoreFrame

\* addNewToken: the payload is put in front unless its id is in the list
addNewToken(tok) ==
    /\ storeActions < MaxStoreActions
    /\ storeTokens' = AddedTo(storeTokens, tok)
    /\ storeActions' = storeActions + 1
    /\ lastAdd' = [done |-> TRUE, payload |-> tok, before |-> storeTokens,
                   after |-> storeTokens']
    /\ UNCHANGED storeReplaced
    /\ StoreFrame

\* updateTokenPrice: the first token with the id gets the price and the change
updateTokenPrice(id, price, priceChange24h) ==
    /\ storeActions < MaxStoreActions
    /\ storeTokens' =
         IF TokenExists(storeTokens, id)
           THEN LET n == CHOOSE m \in 1..Len(storeTokens) :
                           /\ storeTokens[m].id = id
                           /\ \A l \in 1..(m - 1) : storeTokens[l].id # id
                IN  [storeTokens EXCEPT ![n] = [@ EXCEPT !.price = price,
                                                         !.priceChange24h = priceChange24h]]
           ELSE storeTokens
    /\ storeActions' = storeActions + 1
    /\ UNCHANGED << storeReplaced, lastAdd >>
    /\ StoreFrame

StoreNext ==
    \/ \E list \in SeqUpTo(StoreTokens, MaxListed) : setTokens(list)
    \/ \E tok \in StoreTokens : addNewToken(tok)
    \/ \E tok \in StoreTokens : updateTokenPrice(tok.id, tok.price, tok.priceChange24h)

(***************************************************************************)
(* PART 3 - generateInitialData (hooks/use-live-chart-data.ts)             *)
(* Strings are sequences of character codes.  Prices, values and the sine  *)
(* are fixed-point numbers in thousandths; time stamps are the millisecond *)
(* value that toISOString() prints.                                        *)
(***************************************************************************)
\* Math.PI and 2 * Math.PI, in thousandths
PiMilli == 3142
TwoPiMilli == 6283
\* `60 * 60 * 1000`: the points are one hour apart
MsPerHour == 60 * 60 * 1000

\* the value of a character as a digit, 99 when it is none
DigitVal(c) ==
    IF c \in 48..57 THEN c - 48
    ELSE IF c \in 97..102 THEN c - 87
    ELSE IF c \in 65..70 THEN c - 55
    ELSE 99

RECURSIVE ParseDigits(_, _, _, _)
ParseDigits(s, k, radix, acc) ==
    IF k > Len(s) \/ DigitVal(s[k]) >= radix THEN acc
    ELSE ParseDigits(s, k + 1, radix, acc * radix + DigitVal(s[k]))

RECURSIVE SkipWhite(_, _)
SkipWhite(s, k) ==
    IF k <= Len(s) /\ s[k] \in {32, 9, 10, 13} THEN SkipWhite(s, k + 1) ELSE k

\* parseInt(s) with no radix: leading white space, a sign, a 0x prefix, then
\* digits up to the first character that is none; NaN when there is no digit
parseInt(s) ==
    LET k0    == SkipWhite(s, 1)
        neg   == k0 <= Len(s) /\ s[k0] = 45
        k1    == IF k0 <= Len(s) /\ s[k0] \in {43, 45} THEN k0 + 1 ELSE k0
        hex   == k1 + 1 <= Len(s) /\ s[k1] = 48 /\ s[k1 + 1] \in {120, 88}
        k2    == IF hex THEN k1 + 2 ELSE k1
        radix == IF hex THEN 16 ELSE 10
        any   == k2 <= Len(s) /\ DigitVal(s[k2]) < radix
        val   == ParseDigits(s, k2, radix, 0)
    IN  IF any THEN [nan |-> FALSE, val |-> IF neg THEN 0 - val ELSE val]
        ELSE [nan |-> TRUE, val |-> 0]

\* `parseInt(token.id) || token.symbol.charCodeAt(0)` (symbols are not empty)
tokenSeed(tok) ==
    LET p == parseInt(tok.id)
    IN  IF ~p.nan /\ p.val # 0 THEN p.val ELSE tok.symbol[1]

\* Math.sin of an angle in thousandths of a radian, in thousandths
\* (Bhaskara's approximation on each half period)
SinMilli(a) ==
    LET x    == a % TwoPiMilli
        half == IF x <= PiMilli THEN x ELSE x - PiMilli
        y    == half * (PiMilli - half)
        v    == (16 * y) \div ((5 * PiMilli * PiMilli - 4 * y) \div 1000)
    IN  IF x <= PiMilli THEN v ELSE 0 - v

\* the faulty variant uses the first branch (2 * progress * progress) for
\* every progress
SmoothProgress_firstBranchOnly(i, dataPoints) ==
    LET d == dataPoints - 1
    IN  (2 * i * i * 1000) \div (d * d)
\* smoothProgress for progress = i / (dataPoints - 1), in thousandths
SmoothProgress(i, dataPoints) ==
    LET d == dataPoints - 1
    IN  IF 2 * i < d
          THEN (2 * i * i * 1000) \div (d * d)
          ELSE 1000 - ((2 * d - 2 * i) * (2 * d - 2 * i) * 1000) \div (2 * d * d)

\* the value of point i (from 0) of the generated history
ValueAt(tok, dataPoints, i) ==
    LET d            == dataPoints - 1
        currentPrice == tok.price
        startPrice   == (currentPrice * 100) \div (100 + tok.priceChange24h)
        seed         == tokenSeed(tok)
        baseValue    == startPrice
                          + ((currentPrice - startPrice) * SmoothProgress(i, dataPoints)) \div 1000
        wave1        == (SinMilli((TwoPiMilli * i) \div d + seed * 1000) * currentPrice * 8)
                          \div 1000000
        wave2        == (SinMilli((2 * TwoPiMilli * i) \div d + seed * 2000) * currentPrice * 4)
                          \div 1000000
        value        == baseValue + wave1 + wave2
        floor        == currentPrice \div 2
    IN  IF value > floor THEN value ELSE floor

\* the faulty variant adds noise that depends on the time of the call to each value
generateInitialData_timeNoise(tok, dataPoints, now) ==
    [k \in 1..dataPoints |->
        [time  |-> now - (dataPoints - k) * MsPerHour,
         value |-> ValueAt(tok, dataPoints, k - 1) + now]]
\* generateInitialData(token, dataPoints), called when Date.now() is `now`
generateInitialData(tok, dataPoints, now) ==
    [k \in 1..dataPoints |->
        [time  |-> now - (dataPoints - k) * MsPerHour,
         value |-> ValueAt(tok, dataPoints, k - 1)]]

\* time that passes between two calls of generateInitialData
MaxSeedClock == 2

\* "SOL"
Symbol == << 83, 79, 76 >>
\* identifiers "1", "7", "-3", "0x1f", "x1", "y1"
SeedIds == { << 49 >>, << 55 >>, << 45, 51 >>, << 48, 120, 49, 102 >>,
             << 120, 49 >>, << 121, 49 >> }
\* prices 10.0 and 200.0 (large against the thousandth the arithmetic
\* resolves); 24h changes +25 %, 0 %, -20 %, +300 %
SeedTokens == [id : SeedIds, symbol : {Symbol}, price : {10000, 200000},
               priceChange24h : {25, 0, -20, 300}]
SeedPointCounts == {2, 3, 24}

NoToken == [id |-> << >>, symbol |-> Symbol, price |-> 0, priceChange24h |-> 0]

\* before any call
SeedIdle ==
    /\ seedToken = NoToken
    /\ seedPoints = 0
    /\ seedNow = 0
    /\ seedCalls = 0
    /\ seedNow1 = 0
    /\ seedNow2 = 0
    /\ history1 = << >>
    /\ history2 = << >>
    /\ otherToken = NoToken
    /\ otherCalls = 0
    /\ historyOther = << >>

SeedInit ==
    /\ seedToken \in SeedTokens
    /\ seedPoints \in SeedPointCounts
    /\ seedNow = 0
    /\ seedCalls = 0
    /\ seedNow1 = 0
    /\ seedNow2 = 0
    /\ history1 = << >>
    /\ history2 = << >>
    /\ otherToken = NoToken
    /\ otherCalls = 0
    /\ historyOther = << >>

\* the first call
SeedFirstCall ==
    /\ seedCalls = 0
    /\ history1' = generateInitialData(seedToken, seedPoints, seedNow)
    /\ seedNow1' = seedNow
    /\ seedCalls' = 1
    /\ UNCHANGED << seedToken, seedPoints, seedNow, seedNow2, history2,
                    otherToken, otherCalls, historyOther >>
    /\ SeedFrame

\* a millisecond passes
SeedTick ==
    /\ seedNow < MaxSeedClock
    /\ seedNow' = seedNow + 1
    /\ UNCHANGED << seedToken, seedPoints, seedCalls, seedNow1, seedNow2, history1, history2,
                    otherToken, otherCalls, historyOther >>
    /\ SeedFrame

\* the second call, with the same token and point count
SeedSecondCall ==
    /\ seedCalls = 1
    /\ history2' = generateInitialData(seedToken, seedPoints, seedNow)
    /\ seedNow2' = seedNow
    /\ seedCalls' = 2
    /\ UNCHANGED << seedToken, seedPoints, seedNow, seedNow1, history1,
                    otherToken, otherCalls, historyOther >>
    /\ SeedFrame

\* a call for a token that differs from the first one in its identifier only
SeedOtherCall ==
    /\ seedCalls >= 1
    /\ otherCalls = 0
    /\ \E id \in SeedIds \ {seedToken.id} :
         /\ otherToken' = [seedToken EXCEPT !.id = id]
         /\ historyOther' = generateInitialData([seedToken EXCEPT !.id = id], seedPoints, seedNow)
    /\ otherCalls' = 1
    /\ UNCHANGED << seedToken, seedPoints, seedNow, seedCalls, seedNow1, seedNow2,
                    history1, history2 >>
    /\ SeedFrame

SeedNext ==
    \/ SeedFirstCall
    \/ SeedTick
    \/ SeedSecondCall
    \/ SeedOtherCall

(***************************************************************************)
(* PART 4 - useLiveChartData (hooks/use-live-chart-data.ts), one instance  *)
(***************************************************************************)
\* number of re-renders with changed props and of appendDataPoint calls
\* explored, taken together
MaxChartEvents == 2
\* milliseconds that pass while the hook is observed
MaxChartClock == 1

\* the instrument "1" at price 10.0 (+25 %) and at price 20.0 (-20 %), and
\* the instrument "x1" at price 10.0 (+25 %)
ChartTokens == { [id |-> << 49 >>, symbol |-> Symbol, price |-> 10000, priceChange24h |-> 25],
                 [id |-> << 49 >>, symbol |-> Symbol, price |-> 20000, priceChange24h |-> -20],
                 [id |-> << 120, 49 >>, symbol |-> Symbol, price |-> 10000, priceChange24h |-> 25] }
\* The options a caller passes, scaled down from the time frames of
\* PULSE_REAL_DATA.md ("24H": 100 and 24, "1H": 60 and 60, "7D": 168 and 168).
ChartOptions == { [maxDataPoints |-> 3, initialDataPoints |-> 2],
                  [maxDataPoints |-> 2, initialDataPoints |-> 2],
                  [maxDataPoints |-> 3, initialDataPoints |-> 3] }
\* the value a caller of appendDataPoint passes: 15.0
AppendedValues == { 15000 }

\* nothing evicted yet
NoEviction == << >>

\* the hook after its first render: useState and useRef initial values, no
\* effect run yet
ChartInitWith(tok, cap, n) ==
    /\ token = tok
    /\ maxDataPoints = cap
    /\ initialDataPoints = n
    /\ chartData = << >>
    /\ lastPriceRef = tok.price
    /\ dataPointsRef = << >>
    /\ initializedTokenRef = << >>
    /\ rafQueue = << >>
    /\ chartPc = "constructed"
    /\ chartClock = 0
    /\ renders = 0
    /\ appendCalls = 0
    /\ seedCount = 0
    /\ seededIds = {}
    /\ reseeds = 0
    /\ guardedReruns = 0
    /\ priceAppends = 0
    /\ lastEvicted = NoEviction

ChartInit ==
    \E tok \in ChartTokens, opt \in ChartOptions :
       ChartInitWith(tok, opt.maxDataPoints, opt.initialDataPoints)

\* no chart on the page
ChartIdle == ChartInitWith(NoToken, 0, 0)

\* `initializedTokenRef.current !== token.id`: the faulty variant seeds whenever the
\* effect runs
SeedGuard_always(initialized, id) == TRUE
SeedGuard(initialized, id) == initialized # id

\* `if (lastPriceRef.current === token.price) return`: the faulty variant
\* appends whenever the price effect runs
PriceGuard_always(last, price) == TRUE
PriceGuard(last, price) == last # price

\* `[...buffer, point]`, then one shift() when longer than the capacity
AppendBounded(buffer, point, cap) ==
    LET updatedData == Append(buffer, point)
    IN  IF Len(updatedData) > cap THEN Tail(updatedData) ELSE updatedData

\* what the shift() of an append with overflow removed, beside the point that
\* was the buffer's oldest before the append
EvictionOf(buffer, point, cap) ==
    LET updatedData == Append(buffer, point)
    IN  IF Len(updatedData) > cap
          THEN << Head(updatedData), buffer[1] >>
          ELSE lastEvicted

\* The effects of one commit, in their order in the hook: the seed effect
\* (when seedRuns) and then the price effect (when priceRuns), for the props
\* tok, cap, n of this render.
RunEffects(tok, cap, n, seedRuns, priceRuns) ==
    LET doSeed   == seedRuns /\ SeedGuard(initializedTokenRef, tok.id)
        initData == generateInitialData(tok, n, chartClock)
        data1    == IF doSeed THEN initData ELSE dataPointsRef
        last1    == IF doSeed THEN tok.price ELSE lastPriceRef
        doAppend == priceRuns /\ PriceGuard(last1, tok.price)
        point    == [time |-> chartClock, value |-> tok.price]
    IN  /\ dataPointsRef' = IF doAppend THEN AppendBounded(data1, point, cap) ELSE data1
        /\ lastPriceRef' = IF doAppend THEN tok.price ELSE last1
        /\ initializedTokenRef' = IF doSeed THEN tok.id ELSE initializedTokenRef
        /\ rafQueue' = IF doSeed THEN Append(rafQueue, initData) ELSE rafQueue
        /\ chartData' = IF doAppend THEN AppendBounded(data1, point, cap) ELSE chartData
        /\ seedCount' = IF doSeed THEN seedCount + 1 ELSE seedCount
        /\ seededIds' = IF doSeed THEN seededIds \cup {tok.id} ELSE seededIds
        /\ reseeds' = IF doSeed /\ tok.id \in seededIds THEN reseeds + 1 ELSE reseeds
        /\ guardedReruns' = IF seedRuns /\ ~doSeed THEN guardedReruns + 1 ELSE guardedReruns
        /\ priceAppends' = IF doAppend THEN priceAppends + 1 ELSE priceAppends
        /\ lastEvicted' = IF doAppend THEN EvictionOf(data1, point, cap) ELSE lastEvicted

\* the commit of the first render: every effect runs
ChartMount ==
    /\ chartPc = "constructed"
    /\ RunEffects(token, maxDataPoints, initialDataPoints, TRUE, TRUE)
    /\ chartPc' = "mounted"
    /\ UNCHANGED << token, maxDataPoints, initialDataPoints, chartClock, renders, appendCalls >>
    /\ ChartFrame

\* a re-render with other props: an effect runs when one of its dependencies
\* ([token.id, initialDataPoints], [token.price, maxDataPoints]) changed
ChartRender(tok, cap, n) ==
    /\ chartPc = "mounted"
    /\ renders + appendCalls < MaxChartEvents
    /\ << tok, cap, n >> # << token, maxDataPoints, initialDataPoints >>
    /\ RunEffects(tok, cap, n,
                  tok.id # token.id \/ n # initialDataPoints,
                  tok.price # token.price \/ cap # maxDataPoints)
    /\ token' = tok
    /\ maxDataPoints' = cap
    /\ initialDataPoints' = n
    /\ renders' = renders + 1
    /\ UNCHANGED << chartPc, chartClock, appendCalls >>
    /\ ChartFrame

\* the appendDataPoint callback of the latest render
appendDataPoint(dataPoint) ==
    /\ chartPc = "mounted"
    /\ renders + appendCalls < MaxChartEvents
    /\ dataPointsRef' = AppendBounded(dataPointsRef, dataPoint, maxDataPoints)
    /\ chartData' = AppendBounded(dataPointsRef, dataPoint, maxDataPoints)
    /\ lastEvicted' = EvictionOf(dataPointsRef, dataPoint, maxDataPoints)
    /\ appendCalls' = appendCalls + 1
    /\ UNCHANGED << token, maxDataPoints, initialDataPoints, lastPriceRef,
                    initializedTokenRef, rafQueue, chartPc, chartClock, renders,
                    seedCount, seededIds, reseeds, guardedReruns, priceAppends >>
    /\ ChartFrame

\* the requestAnimationFrame callback of the oldest pending seed
RafFire ==
    /\ rafQueue # << >>
    /\ chartData' = Head(rafQueue)
    /\ rafQueue' = Tail(rafQueue)
    /\ UNCHANGED << token, maxDataPoints, initialDataPoints, lastPriceRef, dataPointsRef,
                    initializedTokenRef, chartPc, chartClock, renders, appendCalls,
                    seedCount, seededIds, reseeds, guardedReruns, priceAppends, lastEvicted >>
    /\ ChartFrame

\* a millisecond passes
ChartTick ==
    /\ chartClock < MaxChartClock
    /\ chartClock' = chartClock + 1
    /\ UNCHANGED << token, maxDataPoints, initialDataPoints, chartData, lastPriceRef,
                    dataPointsRef, initializedTokenRef, rafQueue, chartPc, renders,
                    appendCalls, seedCount, seededIds, reseeds, guardedReruns,
                    priceAppends, lastEvicted >>
    /\ ChartFrame

ChartNext ==
    \/ ChartMount
    \/ \E tok \in ChartTokens, opt \in ChartOptions :
         ChartRender(tok, opt.maxDataPoints, opt.initialDataPoints)
    \/ \E value \in AppendedValues : appendDataPoint([time |-> chartClock, value |-> value])
    \/ RafFire
    \/ ChartTick

(***************************************************************************)
(* Specifications.  Each runs one part (SpecServer: the two producers) and *)
(* keeps the others in their initial state.                                *)
(***************************************************************************)
\* the subscription singleton in one browser page
InitSub == SubInit /\ PollerInit /\ WebhookInit /\ ChartIdle /\ SeedIdle /\ PayloadIdle /\ FetchIdle /\ StoreInit
SpecSub == InitSub /\ [][SubNext]_vars
\* setTimeout runs its callback once the 100 ms have gone by: time passes and
\* a timer that is due fires
SpecSubTimed == InitSub /\ [][SubNext]_vars /\ WF_vars(Tick) /\ WF_vars(TimerFire)

\* the poller process
InitLive == SubInit /\ PollerInit /\ WebhookInit /\ ChartIdle /\ SeedIdle /\ PayloadIdle /\ FetchIdle /\ StoreInit
SpecLive == InitLive /\ [][LiveNext]_vars

\* the tokens of the events: "x1" at two prices
EventTokens == { t \in StoreTokens : t.id = "x1" }

\* the viewers, a client that connects, and events that carry any of the tokens
ViewNext ==
    \/ \E v \in Viewers : acquire(v)
    \/ \E v \in Viewers : release(v)
    \/ Tick
    \/ TimerFire
    \/ ConnEstablished
    \/ \E tok \in EventTokens : Deliver(tok)

InitView == SubInit /\ PollerInit /\ WebhookInit /\ ChartIdle /\ SeedIdle /\ PayloadIdle /\ FetchIdle /\ StoreInit
SpecView == InitView /\ [][ViewNext]_vars

InitProbe == SubInit /\ PollerInit /\ WebhookInit /\ ChartIdle /\ SeedIdle /\ PayloadIdle /\ FetchIdle /\ StoreInit
SpecProbe == InitProbe /\ [][ProbeNext]_vars

InitPoller == SubInit /\ PollerInit /\ WebhookInit /\ ChartIdle /\ SeedIdle /\ PayloadIdle /\ FetchIdle /\ StoreInit
SpecPoller == InitPoller /\ [][PollerNext]_vars

ServerNext ==
    \/ PollerNext
    \/ WebhookIdNext

\* both producers, each publishing to channel 'pulse'
InitServer == SubInit /\ PollerInit /\ WebhookInit /\ ChartIdle /\ SeedIdle /\ PayloadIdle /\ FetchIdle /\ StoreInit
SpecServer == InitServer /\ [][ServerNext]_vars

\* the webhook route alone
InitWebhook == SubInit /\ PollerInit /\ WebhookInit /\ ChartIdle /\ SeedIdle /\ PayloadIdle /\ FetchIdle /\ StoreInit
SpecWebhook == InitWebhook /\ [][WebhookNext]_vars

\* both transforms applied to one candidate
InitPayload == SubInit /\ PollerInit /\ WebhookInit /\ ChartIdle /\ SeedIdle /\ PayloadInit /\ FetchIdle /\ StoreInit
SpecPayload == InitPayload /\ [][PayloadNext]_vars

\* one call of fetchNewlyCreatedTokens
InitFetch == SubInit /\ PollerInit /\ WebhookInit /\ ChartIdle /\ SeedIdle /\ PayloadIdle /\ FetchInit /\ StoreInit
SpecFetch == InitFetch /\ [][FetchNext]_vars
\* the same with the one thing the code guarantees: the call is made.  The
\* options of both fetch calls hold only headers (no signal, no timer), so
\* whether and when a call settles is up to the provider.
SpecFetchCalled == InitFetch /\ [][FetchNext]_vars /\ WF_vars(FetchCall)

\* the tokens slice under any sequence of actions
InitStore == SubInit /\ PollerInit /\ WebhookInit /\ ChartIdle /\ SeedIdle /\ PayloadIdle /\ FetchIdle /\ StoreInit
SpecStore == InitStore /\ [][StoreNext]_vars

\* one instance of the chart hook
InitChart == SubInit /\ PollerInit /\ WebhookInit /\ ChartInit /\ SeedIdle /\ PayloadIdle /\ FetchIdle /\ StoreInit
SpecChart == InitChart /\ [][ChartNext]_vars

\* two calls of generateInitialData with the same arguments
InitSeed == SubInit /\ PollerInit /\ WebhookInit /\ ChartIdle /\ SeedInit /\ PayloadIdle /\ FetchIdle /\ StoreInit
SpecSeed == InitSeed /\ [][SeedNext]_vars

(***************************************************************************)
(* Claims about the producers (SpecPoller, SpecServer)                     *)
(***************************************************************************)
\* C1: a publish to channel 'pulse' is issued at most once per distinct
\* identifier, whichever producer (poller, webhook) the candidates come from.
C1_AtMostOncePerId ==
    \A i \in AllIds : pollerTriggers[i] + whTriggers[i] <= 1

\* no execution of pollAndBroadcast is under way
PollerAtRest == \A c \in 1..MaxCycles : cycles[c].pc \in {"idle", "done"}

\* C21: a poll cycle in which a provider call failed or a publish was
\* rejected does not stop the poller: no execution of pollAndBroadcast ends in
\* an error; once the first execution is over the interval is armed, and it
\* can start a further execution whatever the earlier ones did; an execution
\* under way can always take its next step; and when all executions are at
\* rest, every identifier a cycle discovered that the startup did not return
\* has been published.
C21_FaultyCycleDoesNotStopPoller ==
    /\ \A c \in 1..MaxCycles : cycles[c].pc # "aborted"
    /\ cycles[1].pc = "done" => mainPc = "interval"
    /\ (firstFaulty # 0 /\ cycles[1].pc = "done" /\ started < MaxCycles) => ENABLED IntervalFire
    /\ \A c \in 1..MaxCycles :
         /\ cycles[c].pc = "fetch" => ENABLED FetchDone(c)
         /\ cycles[c].pc = "publish" => ENABLED PublishDone(c)
         /\ cycles[c].pc = "delay" => ENABLED DelayDone(c)
    /\ (firstFaulty # 0 /\ PollerAtRest) =>
          \A i \in cycleIds \ startupIds : pollerTriggers[i] = 1

\* C21 witness: both provider calls of the first execution failed or its
\* fallback did (no publish was rejected), that execution is over, and the
\* second one is publishing an identifier it discovered.
C21_Witness ==
    /\ firstFaulty = 1 /\ pollerFailed = {}
    /\ cycles[1].pc = "done"
    /\ cycles[2].pc = "publish"
    /\ TokenIdOf(cycles[2].tokens[1]) \notin startupIds
    /\ pollerTriggers[TokenIdOf(cycles[2].tokens[1])] = 1

\* C6: no identifier returned by the startup invocation is ever published by
\* the poller.
C6_StartupNeverPublished ==
    \A i \in startupIds : pollerTriggers[i] = 0

\* C6 witness: a poll cycle got an instrument of the startup invocation again,
\* and a new one, and has finished.
C6_Witness ==
    /\ PollerAtRest /\ started >= 1
    /\ startupIds \cap cycleIds # {}
    /\ \E i \in cycleIds : pollerTriggers[i] = 1

\* C7: the poller publishes exactly once each identifier that was not in the
\* record when a cycle examined it (the identifiers the cycles added to the
\* record), and never one that was recorded already; when the cycles have
\* finished, every identifier they were given that startup had not recorded
\* has been published once.
C7_ExactlyOncePerNewId ==
    /\ \A i \in AllIds :
         pollerTriggers[i] = (IF i \in seenTokenIds \ startupIds THEN 1 ELSE 0)
    /\ PollerAtRest => \A i \in cycleIds \ startupIds : pollerTriggers[i] = 1

\* C7 witness (Scenario A): startup returned x1, a cycle returned x1 and x2:
\* one publish, for x2.
C7_Witness ==
    /\ PollerAtRest
    /\ startupIds = {"x1"} /\ cycleIds = {"x1", "x2"}
    /\ pollerTriggers["x2"] = 1 /\ pollerTriggers["x1"] = 0

\* C27: an identifier whose publish was rejected stays in the record, and
\* no later step of any cycle publishes it again: its publish count stays 1.
C27_FailedPublishNeverRepeated ==
    [][ /\ \A i \in pollerFailed' : i \in seenTokenIds' /\ pollerTriggers'[i] = 1
        /\ \A i \in pollerFailed : pollerTriggers'[i] = pollerTriggers[i] ]_vars

\* C27 witness: the first cycle was given one candidate, x1, and its publish
\* was rejected; the second cycle was given one candidate, passed over x1 as
\* recorded and published nothing.
C27_Witness ==
    /\ startupIds = {} /\ fetched = 2 /\ started = 2
    /\ cycles[1].pc = "done" /\ cycles[1].newTokenCount = 1
    /\ cycles[2].pc = "done" /\ cycles[2].newTokenCount = 0
    /\ pollerFailed = {"x1"} /\ passedOver = {"x1"}
    /\ pollerTriggers["x1"] = 1

\* C28: the record never loses an identifier, and a publish is attempted
\* only for an identifier that is in the record when pusher.trigger is called.
C28_SeenBeforePublish ==
    [][ /\ seenTokenIds \subseteq seenTokenIds'
        /\ \A i \in AllIds :
             /\ pollerTriggers'[i] > pollerTriggers[i] => i \in seenTokenIds'
             /\ pollerTriggers'[i] > 0 => i \in seenTokenIds' ]_vars

\* C28 witness: the startup recorded x1; the first cycle has recorded x2 and
\* is waiting for its publish.
C28_Witness ==
    /\ startupIds = {"x1"} /\ seenTokenIds = {"x1", "x2"}
    /\ cycles[1].pc = "publish" /\ TokenIdOf(cycles[1].tokens[1]) = "x2"
    /\ pollerTriggers["x2"] = 1 /\ pollerTriggers["x1"] = 0

\* C36: a candidate that has neither an id nor an address leaves no trace:
\* the record holds identifiers of returned candidates only and never the
\* empty one, no execution publishes such a candidate, and when every
\* candidate returned so far was one of them, the record is empty and
\* nothing was published.
C36_UnnamedCandidateSkipped ==
    /\ "" \notin seenTokenIds
    /\ seenTokenIds \subseteq startupIds \cup cycleIds
    /\ \A c \in 1..MaxCycles :
         cycles[c].pc \in {"publish", "delay"} => TokenIdOf(cycles[c].tokens[1]) # ""
    /\ (startupIds \cup cycleIds = {}) =>
          /\ seenTokenIds = {}
          /\ \A i \in AllIds : pollerTriggers[i] = 0
          /\ \A c \in 1..MaxCycles : cycles[c].pc \notin {"publish", "delay"}

\* C36 witness: the startup invocation and the first poll cycle were given
\* more candidates between them than one invocation returns, all without
\* id and address; the cycle has run to its end, and nothing was recorded.
C36_Witness ==
    /\ started = 1 /\ cycles[1].pc = "done" /\ cycles[1].newTokenCount = 0
    /\ fetched > MaxBatch
    /\ startupIds = {} /\ cycleIds = {}
    /\ seenTokenIds = {}

\* C17 (as stated): a rejected publish is reported to the caller and not
\* repeated: the webhook answers 500, and the poll cycle that called
\* broadcastNewToken learns of the failure and goes on.
C17_FailureReportedToCaller ==
    /\ \A k \in 1..Len(whReqs) :
         whReqs[k].broker = "rejected" => (whReqs[k].status = 500 /\ Len(whReqs[k].events) = 1)
    /\ pollerFailed \subseteq pollerInformed
    /\ \A i \in pollerFailed : pollerTriggers[i] = 1
    /\ \A c \in 1..MaxCycles : cycles[c].pc # "aborted"

\* C17 (amended): a rejected publish is not repeated; the webhook answers
\* 500; in the poller broadcastNewToken itself catches and logs the failure
\* and returns normally, so the poll cycle is never informed of it: it has
\* counted the candidate as new, keeps it in the record and goes on to the
\* remaining candidates, each of which is still published once.
C17_FailureLoggedCycleGoesOn ==
    /\ \A k \in 1..Len(whReqs) :
         whReqs[k].broker = "rejected" => (whReqs[k].status = 500 /\ Len(whReqs[k].events) = 1)
    /\ pollerInformed = {}
    /\ \A i \in pollerFailed : pollerTriggers[i] = 1 /\ i \in seenTokenIds
    /\ \A c \in 1..MaxCycles : cycles[c].pc # "aborted"
    /\ PollerAtRest => \A i \in cycleIds \ startupIds : pollerTriggers[i] = 1

\* C17 witness: the webhook has answered a rejected publish with 500; in the
\* first poll cycle the publish of the first new candidate was rejected and
\* the cycle has gone on to publish its second one.
C17_Witness ==
    /\ \E k \in 1..Len(whReqs) : whReqs[k].broker = "rejected" /\ whReqs[k].status = 500
    /\ started = 1
    /\ cycles[1].pc = "publish" /\ cycles[1].newTokenCount = 2
    /\ Cardinality(pollerFailed) = 1
    /\ TokenIdOf(cycles[1].tokens[1]) \notin pollerFailed

\* the primary provider gave nothing to return: it failed or had no pair
PrimaryUnusable == fetchPrimary.kind # "ok" \/ fetchPrimary.rows = << >>

\* C18: fetchNewlyCreatedTokens never raises; it calls DEXScreener first and
\* CoinGecko second, and CoinGecko only when DEXScreener failed or returned
\* nothing; whatever the two answer, it returns a list, the empty one when
\* both are of no use.
C18_NeverRaisesFallbackInOrder ==
    /\ fetchPc # "raised"
    /\ fetchCalls \in { << >>, << "dexscreener" >>, << "dexscreener", "coingecko" >> }
    /\ Len(fetchCalls) = 2 => PrimaryUnusable
    /\ fetchPc = "returned" =>
          /\ Len(fetchCalls) = 2 <=> PrimaryUnusable
          /\ fetchResult = fetchNewlyCreatedTokens(fetchPrimary, fetchFallback)
          /\ (PrimaryUnusable /\ fetchFallback.kind # "ok") => fetchResult = << >>

\* C18 witness: the DEXScreener call raised, CoinGecko was called and its
\* body was not JSON: the empty list was returned.
C18_Witness ==
    /\ fetchPc = "returned"
    /\ fetchPrimary.kind = "throw" /\ fetchFallback.kind = "badjson"
    /\ fetchCalls = << "dexscreener", "coingecko" >>
    /\ fetchResult = << >>

\* C22: a provider call that never responds cannot stall the Source Adapter:
\* each call under way is ended after a bounded time, and the invocation
\* goes on to the fallback or returns a list.
C22_CallsBoundedByTimeout ==
    /\ (fetchPc = "primary") ~> (fetchPc \in {"fallback", "returned"})
    /\ (fetchPc = "fallback") ~> (fetchPc = "returned")

\* C20: the check of the record and the insertion are one step: no two
\* executions of the poll cycle hold the same identifier as their unseen
\* candidate, and an identifier is published once at most, also when it is in
\* the result lists of two executions that overlap.
C20_AtomicCheckThenInsert ==
    /\ \A c, d \in 1..MaxCycles :
         (c # d /\ cycles[c].pc \in {"publish", "delay"} /\ cycles[d].pc \in {"publish", "delay"})
            => TokenIdOf(cycles[c].tokens[1]) # TokenIdOf(cycles[d].tokens[1])
    /\ \A c \in 1..MaxCycles :
         cycles[c].pc \in {"publish", "delay"} => TokenIdOf(cycles[c].tokens[1]) \in seenTokenIds
    /\ \A i \in AllIds : pollerTriggers[i] <= 1

\* C20 witness: two executions overlap; one of them has published an
\* identifier that is still ahead in the list of the other, which awaits the
\* publish or the delay of an earlier candidate.
C20_Witness ==
    \E c, d \in 1..MaxCycles :
       /\ c # d
       /\ cycles[c].pc \in {"publish", "delay"}
       /\ cycles[d].pc \in {"publish", "delay"}
       /\ \E n \in 2..Len(cycles[c].tokens) :
            TokenIdOf(cycles[c].tokens[n]) = TokenIdOf(cycles[d].tokens[1])
       /\ pollerTriggers[TokenIdOf(cycles[d].tokens[1])] = 1

(***************************************************************************)
(* Claims about the webhook route (SpecWebhook) and the published token    *)
(* (SpecPayload)                                                           *)
(***************************************************************************)
\* the fields of the two response bodies
SuccessKeys == {"success", "message", "token", "timestamp"}
FailureKeys == {"success", "error", "details"}

\* C13: every finished POST has either answered 200 with {success: true,
\* message, token, timestamp} after publishing exactly one event that the
\* broker accepted, or 500 with {success: false, error, details}; 200 is
\* never the answer to a rejected publish; a request publishes one event at
\* most, and every trigger call belongs to one request.
C13_TwoOutcomes ==
    /\ \A k \in 1..Len(whReqs) :
         LET r == whReqs[k]
         IN  /\ Len(r.events) <= 1
             /\ r.pc # "done" => (r.status = 0 /\ DOMAIN r.response = {"pending"})
             /\ r.pc = "done" =>
                  \/ /\ r.status = 200
                     /\ DOMAIN r.response = SuccessKeys
                     /\ r.response.success = TRUE
                     /\ Len(r.events) = 1
                     /\ r.response.token = r.events[1].data.symbol
                     /\ r.broker = "accepted"
                  \/ /\ r.status = 500
                     /\ DOMAIN r.response = FailureKeys
                     /\ r.response.success = FALSE
                     /\ r.broker # "accepted"
    /\ \A i \in AllIds :
         whTriggers[i] = Cardinality({ k \in 1..Len(whReqs) :
                                         Len(whReqs[k].events) = 1 /\ whReqs[k].id = i })

\* C13 witness: two requests have finished, one with 200 after an accepted
\* publish, one with 500 after a rejected publish.
C13_Witness ==
    /\ Len(whReqs) = 2
    /\ whReqs[1].pc = "done" /\ whReqs[1].status = 200 /\ whReqs[1].broker = "accepted"
    /\ whReqs[2].pc = "done" /\ whReqs[2].status = 500 /\ whReqs[2].broker = "rejected"

\* the event a request published carries the default for every missing field
\* as the claim names them: the sentinel symbol, 0 for the numbers, 'new'
DefaultsAsClaimed(f, d) ==
    /\ (f.symbol.kind = "undefined" \/ f.symbol.chars = << >>) => d.symbol = UnknownSymbol
    /\ f.price = 0 => d.price = 0
    /\ f.priceChange24h = 0 => d.priceChange24h = 0
    /\ (f.volume24h = 0 /\ f.volume = 0) => d.volume24h = 0
    /\ (f.marketCap = 0 /\ f.market_cap = 0) => d.marketCap = 0
    /\ f.liquidity = 0 => d.liquidity = 0
    /\ f.holders = 0 => d.holders = 0
    /\ d.category = "new"

\* C14 (as stated): a webhook payload, however malformed, is never answered
\* with a failure unless the broker rejects the publish: the request ends
\* with 200 and one published event that carries the defaults.
C14_MalformedNeverFails ==
    \A k \in 1..Len(whReqs) :
       LET r == whReqs[k]
       IN  (r.pc = "done" /\ r.broker # "rejected") =>
              /\ r.status = 200
              /\ Len(r.events) = 1
              /\ DefaultsAsClaimed(r.body.fields, r.events[1].data)

\* a body the route can build a token from: JSON other than null whose symbol
\* is missing or a string
Recoverable(body) == body.kind = "json" /\ ~SymbolThrows(body.fields.symbol)

\* the defaults the route substitutes
DefaultsOfRoute(f, d) ==
    /\ (f.id = "" /\ f.address = "") => d.id \in TimeStamps
    /\ (f.symbol.kind = "undefined" \/ f.symbol.chars = << >>) => d.symbol = UnknownSymbol
    /\ (f.symbol.kind = "string" /\ f.symbol.chars # << >>) =>
          d.symbol = toUpperCase(f.symbol.chars)
    /\ f.name = "" => d.name = "New Token"
    /\ f.price = 0 => d.price = 0
    /\ f.priceChange24h = 0 => d.priceChange24h = 0
    /\ (f.volume24h = 0 /\ f.volume = 0) => d.volume24h = 0
    /\ (f.marketCap = 0 /\ f.market_cap = 0) => d.marketCap = 0
    /\ f.liquidity = 0 => d.liquidity = ThirtyPercent(f.volume24h)
    /\ f.holders = 0 => d.holders \in 0..9999
    /\ (f.blockchain = "" /\ f.chain = "") => d.chain = "solana"
    /\ (f.logo = "" /\ f.image = "") => d.logo = ""
    /\ d.category = "new"

\* C14 (amended): a body that is JSON other than null, whose symbol is
\* missing or a string, publishes one event in which every missing field has
\* the route's default (symbol 'UNKNOWN', name 'New Token', price, change,
\* volume and market cap 0, liquidity 30 % of volume24h, holders a random
\* integer below 10000, chain 'solana', logo '', identifier the time stamp,
\* category 'new') and is answered 200 unless the broker rejects the publish;
\* a body that is no JSON, or null, or has a symbol that is no string, is
\* answered 500 and publishes nothing.
C14_DefaultsForJsonBodies ==
    \A k \in 1..Len(whReqs) :
       LET r == whReqs[k]
       IN  /\ Recoverable(r.body) =>
                /\ Len(r.events) = 1
                /\ DefaultsOfRoute(r.body.fields, r.events[1].data)
                /\ (r.pc = "done" /\ r.broker # "rejected") => r.status = 200
           /\ ~Recoverable(r.body) =>
                (r.pc = "done" /\ r.status = 500 /\ r.events = << >>)

\* C14 witness (Scenario B): {"data": {"symbol": "TEST", "price": 1.23}} was
\* answered 200 after one event with symbol TEST, price 1.23, volume24h 0,
\* liquidity 0 and category 'new'.
C14_Witness ==
    \E k \in 1..Len(whReqs) :
       LET r == whReqs[k]
       IN  /\ r.pc = "done" /\ r.status = 200
           /\ r.body.wrapped /\ r.body.fields.price = 1230 /\ r.body.fields.id = ""
           /\ r.events[1].data.symbol = << 84, 69, 83, 84 >>
           /\ r.events[1].data.price = 1230
           /\ r.events[1].data.volume24h = 0
           /\ r.events[1].data.liquidity = 0
           /\ r.events[1].data.category = "new"

\* C26: GET answers 200 with {success: true, message, timestamp} and does
\* nothing else: no POST request under way, no count of publishes and no
\* other state is changed by it.
C26_GetAnswersAndChangesNothing ==
    [][ whGets'.count # whGets.count =>
          /\ whGets'.status = 200
          /\ DOMAIN whGets'.response = {"success", "message", "timestamp"}
          /\ whGets'.response.success = TRUE
          /\ UNCHANGED << whReqs, whTriggers, subVars, pollerVars, chartVars, seedVars,
                          payloadVars, fetchVars, storeVars >> ]_vars

\* C26 witness: a GET was answered while a POST request was waiting for the
\* broker, and that request is still waiting, its one publish counted once.
C26_Witness ==
    /\ whGets.count = 1 /\ whGets.after = 1 /\ whGets.status = 200
    /\ Len(whReqs) = 1 /\ whReqs[1].pc = "publish"
    /\ whTriggers[whReqs[1].id] = 1

\* what either producer published for the candidate
PublishedPayloads == pollerPayload \o webhookPayload

\* C15: when the candidate has no liquidity, the liquidity of the published
\* event is 30 % of the 24h volume of the published event, for either
\* producer and whichever field (volume24h, volume) the volume came from.
C15_LiquidityThirtyPercent ==
    payloadInput.liquidity = 0 =>
       \A n \in 1..Len(PublishedPayloads) :
          PublishedPayloads[n].data.liquidity
             = ThirtyPercent(PublishedPayloads[n].data.volume24h)

\* C16: every event either producer publishes goes to channel 'pulse' under
\* the name 'token.created' and carries category 'new'.
C16_PulseTokenCreatedNew ==
    \A n \in 1..Len(PublishedPayloads) :
       /\ PublishedPayloads[n].channel = "pulse"
       /\ PublishedPayloads[n].event = "token.created"
       /\ PublishedPayloads[n].data.category = "new"

\* C16 witness: a candidate that came with category 'migrated' was published
\* by both producers, each time with category 'new'.
C16_Witness ==
    /\ payloadInput.category = "migrated"
    /\ Len(pollerPayload) = 1 /\ Len(webhookPayload) = 1
    /\ pollerPayload[1].data.category = "new"
    /\ webhookPayload[1].data.category = "new"

(***************************************************************************)
(* Claims about the store (SpecStore)                                      *)
(***************************************************************************)
\* no two tokens of the list share an id
UniqueIds(list) ==
    \A m, n \in 1..Len(list) : list[m].id = list[n].id => m = n

\* C19: while only addNewToken (and updateTokenPrice) has acted on the store,
\* no two stored tokens share an id; an addNewToken whose id is in the list
\* leaves the list as it is, one with a new id puts the token in front, and
\* either way a list without duplicates stays without.
C19_AddKeepsIdsUnique ==
    /\ ~storeReplaced => UniqueIds(storeTokens)
    /\ lastAdd.done =>
          /\ TokenExists(lastAdd.before, lastAdd.payload.id) => lastAdd.after = lastAdd.before
          /\ ~TokenExists(lastAdd.before, lastAdd.payload.id) =>
                lastAdd.after = << lastAdd.payload >> \o lastAdd.before
          /\ UniqueIds(lastAdd.before) => UniqueIds(lastAdd.after)

\* C19 witness: two tokens were added, and a third addNewToken with the id of
\* the first one (at another price) left the list of two as it was.
C19_Witness ==
    /\ ~storeReplaced /\ storeActions = 3
    /\ Len(storeTokens) = 2
    /\ lastAdd.done /\ lastAdd.after = lastAdd.before
    /\ lastAdd.payload.id = storeTokens[2].id
    /\ lastAdd.payload.price # storeTokens[2].price

\* number of tokens of the list with the id
RECURSIVE CountId(_, _)
CountId(list, id) ==
    IF list = << >> THEN 0
    ELSE (IF Head(list).id = id THEN 1 ELSE 0) + CountId(Tail(list), id)

\* C31: when an event has been delivered to the handlers of N >= 1 mounted
\* viewers and each of them has dispatched addNewToken, the store holds the
\* token of the event once; and a store without duplicates stays without.
C31_OneEntryForNHandlers ==
    /\ (eventsSent > 0 /\ lastEvent.dispatched # {}) =>
          CountId(storeTokens, lastEvent.token.id) = 1
    /\ \A n \in 1..Len(storeTokens) : CountId(storeTokens, storeTokens[n].id) = 1

\* C31 witness: three viewers are mounted and the handlers of all three have
\* dispatched the second event, whose id the first event had brought already
\* at another price; the store has the one entry of the first event.
C31_Witness ==
    /\ eventsSent = 2
    /\ Cardinality(lastEvent.dispatched) = 3
    /\ Len(storeTokens) = 1
    /\ storeTokens[1].id = lastEvent.token.id
    /\ storeTokens[1].price # lastEvent.token.price

\* C30: a token that addNewToken put into the store is in the store after
\* every later action the page dispatches (setTokens with the refreshed
\* snapshot, updateTokenPrice).
C30_AddedTokenStays ==
    (lastAdd.done /\ ~TokenExists(lastAdd.before, lastAdd.payload.id)) =>
        TokenExists(storeTokens, lastAdd.payload.id)

(***************************************************************************)
(* Claims about the chart buffer (SpecChart) and the seed (SpecSeed)       *)
(***************************************************************************)
\* C8: the buffer never holds more than maxDataPoints points, and an append
\* that overflows removes the oldest point.
C8_BufferBounded ==
    /\ Len(dataPointsRef) <= maxDataPoints
    /\ lastEvicted # NoEviction => lastEvicted[1] = lastEvicted[2]

\* C29: once no requestAnimationFrame callback is pending, the chart data
\* handed to the renderer is the buffer: the deferred publication of the
\* seed hides no point appended in the meantime.
C29_ChartDataIsBuffer ==
    (chartPc = "mounted" /\ rafQueue = << >>) => chartData = dataPointsRef

\* C35: a render appends one point, at the new price, exactly when it does
\* not seed and its price differs from the last recorded price; mounting, a
\* switch of the identifier and a render at the recorded price leave the
\* buffer without a new point, and the recorded price follows the renders.
C35_AppendExactlyOnPriceChange ==
    [][ LET rendered == renders' # renders \/ chartPc' # chartPc
            seeded   == seedCount' # seedCount
            point    == [time |-> chartClock, value |-> token'.price]
        IN  rendered =>
              /\ lastPriceRef' = token'.price
              /\ (~seeded /\ token'.price # lastPriceRef) =>
                    /\ priceAppends' = priceAppends + 1
                    /\ dataPointsRef' = AppendBounded(dataPointsRef, point, maxDataPoints')
              /\ (~seeded /\ token'.price = lastPriceRef) =>
                    /\ priceAppends' = priceAppends
                    /\ dataPointsRef' = dataPointsRef
              /\ seeded =>
                    /\ priceAppends' = priceAppends
                    /\ dataPointsRef' = generateInitialData(token', initialDataPoints', chartClock) ]_vars

\* C35 witness: two renders after the mount, one with a new price that
\* appended the one point, and one with another identifier that seeded.
C35_Witness ==
    /\ renders = 2 /\ appendCalls = 0
    /\ seedCount = 2 /\ priceAppends = 1

C11_DifferentIdsDifferentHistories ==
    (seedCalls >= 1 /\ otherCalls = 1) => historyOther # history1

\* |a - b|
AbsDiff(a, b) == IF a >= b THEN a - b ELSE b - a

\* the largest size of wave1 + wave2, 1.2 % of the current price, with two
\* thousandths for the rounding of the fixed-point arithmetic
OscillationTolerance(price) == (12 * price) \div 1000 + 2

\* currentPrice / (1 + change24h)
StartPriceOf(tok) == (tok.price * 100) \div (100 + tok.priceChange24h)

\* C12 (as stated): the history has N points, its last point equals the
\* current price, and its first point equals currentPrice / (1 + change24h)
\* up to the oscillation.
C12_AnchoredExactly ==
    seedCalls >= 1 =>
       /\ Len(history1) = seedPoints
       /\ history1[seedPoints].value = seedToken.price
       /\ AbsDiff(history1[1].value, StartPriceOf(seedToken))
             <= OscillationTolerance(seedToken.price)

\* C12 (amended): the history has N points; its last point equals the current
\* price up to the oscillation (1.2 % of the current price); its first point
\* equals currentPrice / (1 + change24h) up to the oscillation, or half the
\* current price when that is larger.
C12_AnchoredUpToOscillation ==
    seedCalls >= 1 =>
       LET price == seedToken.price
           start == StartPriceOf(seedToken)
           tol   == OscillationTolerance(price)
           floor == price \div 2
           first == history1[1].value
           last  == history1[seedPoints].value
       IN  /\ Len(history1) = seedPoints
           /\ AbsDiff(last, price) <= tol
           /\ first >= floor
           /\ first > floor => AbsDiff(first, start) <= tol
           /\ first = floor => start - tol <= floor

\* C12 witness (Scenario C): identifier "1", price 10.0, +25 %, 24 points: the
\* first point is 8.0 up to the oscillation, the last one is 10.0 up to it
\* and not 10.0.
C12_Witness ==
    /\ seedCalls >= 1 /\ seedPoints = 24
    /\ seedToken.id = << 49 >> /\ seedToken.price = 10000 /\ seedToken.priceChange24h = 25
    /\ AbsDiff(history1[1].value, 8000) <= 122
    /\ AbsDiff(history1[24].value, 10000) <= 122
    /\ history1[24].value # 10000

(***************************************************************************)
(* Claims about the subscription singleton (checked under SpecSub)         *)
(***************************************************************************)
\* every mount has been unmounted and every grace timer has run
Quiescent == acquires >= 1 /\ acquires = releases /\ timers = << >>

\* C2 (as stated): after N acquire() and N release() and the grace period,
\* exactly one connection was created and exactly one disconnect was made.
C2_OneConnectOneDisconnect ==
    Quiescent => (connects = 1 /\ disconnects = 1)

\* C2 (amended): after N acquire() and N release() and the grace period, the
\* connections created and the disconnects are equal in number, at least one
\* and at most the number of release() calls that brought the refcount to
\* zero; so exactly one when only the final release reached zero.
C2_ConnectsMatchDisconnects ==
    Quiescent => (connects = disconnects /\ 1 <= connects /\ connects <= zeroReleases)

\* C2 witness: three viewers mounted together, all released, the grace timer
\* ran: one connect, one disconnect (Scenario E).
C2_Witness ==
    Quiescent /\ acquires = 3 /\ zeroReleases = 1 /\ connects = 1 /\ disconnects = 1

\* C3: a grace timer whose release() was followed by a later acquire() never
\* performs the teardown (unsubscribe and disconnect).
C3_SupersededTimerNeverTearsDown ==
    staleTeardowns = 0

\* C4: teardown happens only at refcount zero, and while the refcount is
\* positive the shared connection and the 'pulse' subscription exist.
C4_TeardownOnlyAtZero ==
    /\ teardownCounts \subseteq {0}
    /\ subscriberCount > 0 =>
          (pusherInstance # NoInstance /\ channelInstance # NoInstance)

\* C4 witness: a grace timer expired and ran while a viewer was mounted again,
\* and the connection was left alone.
C4_Witness ==
    /\ subscriberCount > 0 /\ zeroReleases >= 1 /\ timers = << >>
    /\ disconnects = 0 /\ pusherInstance # NoInstance

\* C5: at most one live connection and one live 'pulse' subscription at any
\* time, and the connection-state and subscription-result handlers are bound
\* exactly once on the live connection and channel.
C5_SingleConnectionBoundOnce ==
    /\ connects - disconnects = (IF pusherInstance # NoInstance THEN 1 ELSE 0)
    /\ subscribes - unsubscribes = (IF channelInstance # NoInstance THEN 1 ELSE 0)
    /\ pusherInstance # NoInstance => connBindCount = 1
    /\ channelInstance # NoInstance => subBindCount = 1
    /\ pusherInstance = NoInstance => (connBindCount = 0 /\ ~connectionHandlersBound)

\* C5 witness: three viewers share connection number two (the first one was
\* torn down), whose handlers were bound once.
C5_Witness ==
    /\ subscriberCount = 3 /\ pusherInstance = 2 /\ channelInstance = 2
    /\ connBindCount = 1 /\ subBindCount = 1

\* the manager as the module is loaded: no connection, no channel, no
\* handlers, flag cleared, refcount zero
ManagerInitial ==
    /\ pusherInstance = NoInstance
    /\ channelInstance = NoInstance
    /\ ~connectionHandlersBound
    /\ subscriberCount = 0
    /\ channelHandlers = {}
    /\ connBindCount = 0 /\ subBindCount = 0

\* C33: once the refcount is zero, either an acquire arrives or the manager
\* is torn down eventually and is back in its initial state; an acquire that
\* finds it there constructs a connection and a subscription and binds the
\* connection handlers, as the first acquire did.
C33_TornDownAndFresh ==
    /\ (acquires > 0 /\ subscriberCount = 0) ~> (subscriberCount > 0 \/ ManagerInitial)
    /\ [][ (ManagerInitial /\ acquires' # acquires) =>
             /\ connects' = connects + 1 /\ pusherInstance' = connects'
             /\ subscribes' = subscribes + 1 /\ channelInstance' = subscribes'
             /\ connectionHandlersBound' /\ connBindCount' = 1 /\ subBindCount' = 1
             /\ subscriberCount' = 1 /\ Cardinality(channelHandlers') = 1 ]_vars

\* C33 witness: the connection was torn down by the timer of the last release
\* with no acquire in between, and a later acquire has made the second
\* connection and subscription.
C33_Witness ==
    /\ disconnects = 1 /\ unsubscribes = 1 /\ staleTeardowns = 0
    /\ connects = 2 /\ subscribes = 2
    /\ subscriberCount = 1 /\ connectionHandlersBound /\ connBindCount = 1

\* C34: the refcount is never negative, and it is the number of
\* 'token.created' handlers bound on the shared channel, which is the number
\* of viewers that are mounted.
C34_RefcountIsHandlersIsViewers ==
    /\ subscriberCount >= 0
    /\ subscriberCount = Cardinality(channelHandlers)
    /\ subscriberCount = Cardinality({ v \in Viewers : mounted[v] })
    /\ channelHandlers = { handlerRef[v] : v \in { w \in Viewers : mounted[w] } }

\* C34 witness: after a teardown and a release, two viewers are mounted on
\* the second channel with their two handlers.
C34_Witness ==
    /\ channelInstance = 2 /\ releases >= 2
    /\ subscriberCount = 2 /\ Cardinality(channelHandlers) = 2

(***************************************************************************)
(* Claims about the shared connection and the events (SpecLive)            *)
(***************************************************************************)
\* C23 (as stated): once the shared connection has entered 'failed', no
\* operation of the hook (acquire, release, a teardown by the grace timer
\* followed by a new acquire) leads to a new connection attempt.
C23_FailedIsTerminal ==
    ~attemptAfterFailed

\* C23 (amended): a Pusher object whose connection has entered 'failed'
\* stays in that state for as long as the hook keeps it; acquire and release
\* start no connection attempt on it.  The first attempt after a failure is
\* made by an acquire that finds no Pusher object, the grace timer having
\* torn the failed one down, and constructs a new one.
C23_FailedUntilTornDown ==
    [][ /\ connState = "failed" => connState' \in {"failed", "none"}
        /\ (connState = "failed" /\ connState' = "none") =>
               (pusherInstance # NoInstance /\ pusherInstance' = NoInstance
                  /\ subscriberCount = 0)
        /\ (~attemptAfterFailed /\ attemptAfterFailed') =>
               (pusherInstance = NoInstance /\ pusherInstance' # NoInstance
                  /\ connState = "none" /\ connState' = "connecting") ]_vars

\* C23 witness: a connection failed, the last viewer left and the grace timer
\* tore the Pusher object down; a later mount made a new one, which is
\* connected, with no reload in between.
C23_Witness ==
    /\ hasFailed /\ attemptAfterFailed
    /\ connState = "connected"
    /\ connects = 2 /\ disconnects = 1


\* the handlers of the viewers that are mounted
MountedHandlers == { handlerRef[v] : v \in { w \in Viewers : mounted[w] } }

\* C24: a release by one viewer removes that viewer's handler from the
\* channel and no other one, and an event that arrives is handled by the
\* handler of every viewer that is mounted then, each of which dispatches.
C24_ReleaseRemovesOwnHandlerOnly ==
    [][ /\ \A v \in Viewers :
             (mounted[v] /\ ~mounted'[v]) =>
                /\ handlerRef[v] \in channelHandlers
                /\ channelHandlers' = channelHandlers \ {handlerRef[v]}
                /\ \A w \in Viewers \ {v} : handlerRef'[w] = handlerRef[w]
        /\ eventsSent' # eventsSent =>
             /\ lastEvent'.called = MountedHandlers
             /\ lastEvent'.dispatched = MountedHandlers ]_vars

\* C24 witness: two viewers mounted, one released, and an event that arrived
\* after the release was dispatched by the handler of the other one alone.
C24_Witness ==
    /\ acquires = 2 /\ releases = 1
    /\ eventsSent >= 1 /\ lastEvent.releases = 1
    /\ \E w \in Viewers : mounted[w] /\ lastEvent.dispatched = {handlerRef[w]}

\* C32: the handler of a released viewer dispatches nothing: whenever an
\* event arrives, in the grace window or after the connection was taken up
\* again, every handler that dispatches is the one of a viewer mounted then.
C32_ReleasedHandlerNeverDispatches ==
    [][ eventsSent' # eventsSent =>
          \A h \in lastEvent'.dispatched : h \in MountedHandlers ]_vars

\* C32 witness: the only viewer was released, another mount took up the
\* connection within the grace window, and the event that arrived then was
\* dispatched by the handler of that mount alone.
C32_Witness ==
    /\ acquires = 2 /\ releases = 1 /\ zeroReleases = 1
    /\ connects = 1 /\ disconnects = 0
    /\ eventsSent >= 1 /\ lastEvent.releases = 1
    /\ \E w \in Viewers :
          /\ mounted[w] /\ handlerRef[w][2] = 2
          /\ lastEvent.dispatched = {handlerRef[w]}


\* the grace window of the last release that brought the refcount to zero is
\* open: its timer is pending and has time left
GraceWindowOpen ==
    /\ subscriberCount = 0
    /\ timers # << >>
    /\ ~timers[Len(timers)].superseded
    /\ timers[Len(timers)].rem > 0

\* C25: an acquire that arrives within the grace window after the refcount
\* fell to zero finds the connection and the subscription in place and reuses
\* them: no connect and no subscribe is made, and none was undone.
C25_ReacquireReusesConnection ==
    [][ \A v \in Viewers :
          (GraceWindowOpen /\ ~mounted[v] /\ mounted'[v]) =>
             /\ pusherInstance # NoInstance /\ pusherInstance' = pusherInstance
             /\ channelInstance # NoInstance /\ channelInstance' = channelInstance
             /\ connects' = connects /\ subscribes' = subscribes ]_vars


====
